---- MODULE Spec2Model ----
(***************************************************************************)
(* Model of bolt/lib/Profile/YAMLProfileReader.cpp: the YAML profile       *)
(* reader of BOLT.  preprocessProfile loads the document and builds the    *)
(* name maps, readProfile matches profile records to binary functions in   *)
(* ordered stages and then calls parseFunctionProfile on every matched     *)
(* pair.                                                                   *)
(*                                                                         *)
(* Vectors of the program that are indexed from 0 are sequences here;      *)
(* element k of the vector is element k + 1 of the sequence.               *)
(***************************************************************************)
EXTENDS Integers, Sequences, FiniteSets, TLC

(***************************************************************************)
(* Bounds of the model.                                                    *)
(***************************************************************************)
\* uint64_t is modelled as an unsigned word of WordBits bits.
WordBits == 16
\* Largest number of records in YamlBP.Functions.
MaxFuncs == 2
\* Largest number of block records in the profile of the propagation model.
MaxBlocks == 2
\* Number of times the propagation model invokes parseFunctionProfile.
MaxParses == 2

Mod == 2 ^ WordBits
Add(a, b) == (a + b) % Mod
Mul(a, b) == (a * b) % Mod

\* BinaryFunction::COUNT_NO_PROFILE, BinaryBasicBlock::COUNT_NO_PROFILE:
\* the largest value of uint64_t.
COUNT_NO_PROFILE == Mod - 1

\* nullptr of BinaryFunction *, and of MCSymbol *.
NullBF == "null"
NullSym == <<>>

(***************************************************************************)
(* Names.  A symbol name is a record: namespace and unqualified name (as   *)
(* sequences of characters), the LTO suffix ("" when there is none) and    *)
(* the parenthesised disambiguator a profile name may carry ("" if none).  *)
(***************************************************************************)
MkName(ns, base, lto, tag) == [ns |-> ns, base |-> base, lto |-> lto, tag |-> tag]

\* The name up to the disambiguator: Name.substr(0, Pos).
CleanName(Name) == [Name EXCEPT !.tag = ""]

\* getLTOCommonName: the prefix before the LTO suffix, <<>> for std::nullopt.
getLTOCommonName(Name) ==
  IF Name.lto = "" THEN <<>> ELSE <<[ns |-> Name.ns, base |-> Name.base]>>

\* The characters of the LTO suffix (the suffix counts as one character after
\* the dot) and of the disambiguator of a profile name.
SuffixChars(Name) ==
  (IF Name.lto = "" THEN <<>> ELSE <<".", Name.lto>>)
    \o (IF Name.tag = "" THEN <<>> ELSE <<"(", "*", "2", ")">>)

\* demangle(NameResolver::restore(Name)), BinaryFunction::getDemangledName:
\* the names of the model are not mangled and are returned as they are.
DemangleName(Name) ==
  (IF Name.ns = <<>> THEN Name.base ELSE Name.ns \o <<":", ":">> \o Name.base)
    \o SuffixChars(Name)

\* ItaniumPartialDemangler::getFunctionDeclContextName
DeriveNameSpace(Name) == Name.ns

Min2(a, b) == IF a < b THEN a ELSE b

\* StringRef::edit_distance: the Levenshtein distance.
RECURSIVE edit_distance(_, _)
edit_distance(s, t) ==
  IF Len(s) = 0 THEN Len(t)
  ELSE IF Len(t) = 0 THEN Len(s)
  ELSE IF Head(s) = Head(t) THEN edit_distance(Tail(s), Tail(t))
  ELSE 1 + Min2(edit_distance(Tail(s), Tail(t)),
                Min2(edit_distance(Tail(s), t), edit_distance(s, Tail(t))))

(***************************************************************************)
(* The binary context: the functions of the binary, their blocks and       *)
(* instructions.  This part is fixed; the profile document and the options *)
(* vary.                                                                   *)
(***************************************************************************)
MkBlock(succ, off, size, nonPseudos, calls, entry) ==
  [Successors |-> succ, InputOffset |-> off, OriginalSize |-> size,
   NumNonPseudos |-> nonPseudos, NumCalls |-> calls, isEntryPoint |-> entry]

MkInstr(call, indCall, indBranch, ctc) ==
  [isCall |-> call, isIndirectCall |-> indCall, isIndirectBranch |-> indBranch,
   ConditionalTailCall |-> ctc]

DirectCall == MkInstr(TRUE, FALSE, FALSE, FALSE)
IndirectCall == MkInstr(TRUE, TRUE, FALSE, FALSE)
IndirectBranch == MkInstr(FALSE, FALSE, TRUE, FALSE)
CondTailCall == MkInstr(TRUE, FALSE, FALSE, TRUE)
PlainInstr == MkInstr(FALSE, FALSE, FALSE, FALSE)

\* Function f: four blocks.  b0 branches to b1 (taken) or b2 (fall-through);
\* b1 branches to b3 (taken) or b2; b2 falls through to b3.
F1Blocks ==
  <<MkBlock(<<1, 2>>, 0, 8, 2, 2, TRUE),
    MkBlock(<<3, 2>>, 8, 8, 2, 1, FALSE),
    MkBlock(<<3>>, 16, 4, 0, 0, TRUE),
    MkBlock(<<>>, 20, 4, 1, 0, FALSE)>>

F1Instrs ==
  (0 :> DirectCall) @@ (4 :> IndirectCall) @@ (8 :> CondTailCall) @@
  (12 :> PlainInstr) @@ (20 :> IndirectBranch)

OneBlock == <<MkBlock(<<>>, 0, 4, 1, 1, TRUE)>>
OneInstr == (0 :> DirectCall)

NoInstrs == [a \in {} |-> PlainInstr]

BinaryFunctionIds == {"F1", "F2", "F3", "F4"}

\* BC.getBinaryFunctions(), BC.getAllBinaryFunctions(): the iteration order.
AllBinaryFunctions == <<"F1", "F2", "F3", "F4">>

BinaryFunctions ==
  [F1 |-> [OneName |-> MkName(<<>>, <<"f">>, "", ""),
           Names |-> {MkName(<<>>, <<"f">>, "", ""),
                      MkName(<<>>, <<"k">>, "llvm.4", "")},
           Hash |-> 1, Blocks |-> F1Blocks,
           Layout |-> <<0, 1, 2, 3>>, Dfs |-> <<0, 2, 3, 1>>,
           Instrs |-> F1Instrs],
   F2 |-> [OneName |-> MkName(<<>>, <<"g">>, "llvm.2", ""),
           Names |-> {MkName(<<>>, <<"g">>, "llvm.2", "")},
           Hash |-> 2, Blocks |-> OneBlock,
           Layout |-> <<0>>, Dfs |-> <<0>>, Instrs |-> OneInstr],
   F3 |-> [OneName |-> MkName(<<>>, <<"g">>, "llvm.3", ""),
           Names |-> {MkName(<<>>, <<"g">>, "llvm.3", "")},
           Hash |-> 1, Blocks |-> OneBlock,
           Layout |-> <<0>>, Dfs |-> <<0>>, Instrs |-> OneInstr],
   F4 |-> [OneName |-> MkName(<<>>, <<"e">>, "", ""),
           Names |-> {MkName(<<>>, <<"e">>, "", "")},
           Hash |-> 3, Blocks |-> <<>>,
           Layout |-> <<>>, Dfs |-> <<>>, Instrs |-> NoInstrs]]

\* BinaryFunction::size, BinaryFunction::empty
BFSize(bf) == Len(BinaryFunctions[bf].Blocks)
BFEmpty(bf) == BFSize(bf) = 0

\* BinaryFunction::getDemangledName: of the function's first name.
BFDemangledName(bf) == DemangleName(BinaryFunctions[bf].OneName)
BFNameSpace(bf) == DeriveNameSpace(BinaryFunctions[bf].OneName)

(***************************************************************************)
(* State.                                                                  *)
(***************************************************************************)
VARIABLES
  pc,                       \* position of the driver in the reader's entry points
  opts,                     \* the command-line options (namespace opts)
  loadStatus,               \* outcome of opening and parsing the profile file
  Header,                   \* YamlBP.Header
  Functions,                \* YamlBP.Functions, without the Used flags
  Used,                     \* YamlBP.Functions[i].Used
  ProfileBFs,               \* name-lookup result per profile record
  ProfileFunctionNames,     \* cleaned profile names
  LTOCommonNameMap,         \* common name -> indices of profile records
  LTOCommonNameFunctionMap, \* common name -> binary functions
  YamlProfileToFunction,    \* profile Id -> binary function
  ProfiledFunctions,        \* binary functions that have a profile assigned
  NormalizeByInsnCount,
  NormalizeByCalls,
  BF,                       \* mutable state of every binary function
  Stats,                    \* counters of readProfile and of the binary context
  result,                   \* what the entry point returned
  claimLog,                 \* history: the calls of matchProfileToFunction
  parseLog,                 \* history: the calls of parseFunctionProfile
  nParses,                  \* propagation model: invocations made so far
  idx,                      \* propagation loop of readProfile: next record
  previous                  \* an earlier run on the same inputs, for comparison

vars ==
  <<pc, opts, loadStatus, Header, Functions, Used, ProfileBFs,
    ProfileFunctionNames, LTOCommonNameMap, LTOCommonNameFunctionMap,
    YamlProfileToFunction, ProfiledFunctions, NormalizeByInsnCount,
    NormalizeByCalls, BF, Stats, result, claimLog, parseLog, nParses, idx,
    previous>>

\* What the document and the command line give.
given == <<opts, loadStatus, Header, Functions>>
\* What no entry point of the reader writes.
inputs == <<opts, loadStatus, Header, Functions, previous>>
tables ==
  <<ProfileBFs, ProfileFunctionNames, LTOCommonNameMap, LTOCommonNameFunctionMap>>
matcher == <<Used, YamlProfileToFunction, ProfiledFunctions, Stats, claimLog>>
normalize == <<NormalizeByInsnCount, NormalizeByCalls>>

(***************************************************************************)
(* The mutable part of a binary function, as the binary context builds it: *)
(* no execution count, no hash computed, no annotation, all branch counts  *)
(* zero.                                                                   *)
(***************************************************************************)
NoAnnotations ==
  [Count |-> <<>>, CTCTakenCount |-> <<>>, CTCMispredCount |-> <<>>,
   CallProfile |-> <<>>]

InitialBF(bf) ==
  [ExecutionCount |-> COUNT_NO_PROFILE,
   RawBranchCount |-> 0,
   Hash |-> 0,
   Profiled |-> FALSE,
   ProfileFlags |-> {},
   Ignored |-> FALSE,
   BlockExec |-> [b \in 1..BFSize(bf) |-> COUNT_NO_PROFILE],
   Branch |-> [b \in 1..BFSize(bf) |->
                 [k \in 1..Len(BinaryFunctions[bf].Blocks[b].Successors) |->
                    [Count |-> 0, MispredictedCount |-> 0]]],
   Annot |-> [a \in DOMAIN BinaryFunctions[bf].Instrs |-> NoAnnotations],
   AllCallSites |-> <<>>]

\* BinaryFunction::hasProfile
hasProfile(d) == d.ExecutionCount # COUNT_NO_PROFILE

\* BinaryFunction::markProfiled
markProfiled(d, Flags) ==
  [d EXCEPT !.ExecutionCount = IF @ = COUNT_NO_PROFILE THEN 0 ELSE @,
            !.Profiled = TRUE,
            !.ProfileFlags = Flags]

\* BinaryFunction::computeHash
computeHash(bf, d) == [d EXCEPT !.Hash = BinaryFunctions[bf].Hash]

(***************************************************************************)
(* parseFunctionProfile: propagation of one profile record onto the        *)
(* binary function bf, whose mutable state is d.                           *)
(***************************************************************************)
\* No block: the nullptr of BinaryBasicBlock *.
NullBlock == 0 - 1

\* YamlBP.Header.Flags & BinaryFunction::PF_SAMPLE
IsSample == "PF_SAMPLE" \in Header.Flags

\* The vector Order: BF.dfs() or BF.getLayout().blocks().
Order(bf) ==
  IF Header.IsDFSOrder THEN BinaryFunctions[bf].Dfs ELSE BinaryFunctions[bf].Layout

BlockOf(bf, bb) == BinaryFunctions[bf].Blocks[bb + 1]

\* BinaryBasicBlock::getSuccessor(Label): the position of the successor in
\* the block's successor list, 0 when the block has no such successor.
SuccPos(bf, bb, to) ==
  LET S == BlockOf(bf, bb).Successors
  IN IF \E k \in 1..Len(S) : S[k] = to
     THEN CHOOSE k \in 1..Len(S) : S[k] = to /\ \A j \in 1..(k - 1) : S[j] # to
     ELSE 0

\* BinaryBasicBlock::getConditionalSuccessor
getConditionalSuccessor(bf, bb, Condition) ==
  LET S == BlockOf(bf, bb).Successors
  IN IF Len(S) # 2 THEN NullBlock ELSE S[IF Condition THEN 1 ELSE 2]

\* BI = BB.getBranchInfo(ToBB); BI.Count += c; BI.MispredictedCount += m
AddBranchInfo(d, bf, bb, to, c, m) ==
  [d EXCEPT !.Branch[bb + 1][SuccPos(bf, bb, to)] =
     [Count |-> Add(@.Count, c),
      MispredictedCount |-> Add(@.MispredictedCount, m)]]

\* FuncRawBranchCount: the sum of the Count of all successor entries.
RECURSIVE SumCounts(_)
SumCounts(succs) ==
  IF succs = <<>> THEN 0 ELSE Add(Head(succs).Count, SumCounts(Tail(succs)))

RECURSIVE FuncRawBranchCount(_)
FuncRawBranchCount(blocks) ==
  IF blocks = <<>> THEN 0
  ELSE Add(SumCounts(Head(blocks).Successors), FuncRawBranchCount(Tail(blocks)))

\* setAnnotation without the hasAnnotation test: the last value stays.
setAnnotation_Overwrite(s, addr, Name, Count) ==
  [s EXCEPT !.d.Annot[addr][Name] = <<Count>>]

\* The lambda setAnnotation: the first value of a scalar annotation stays.
setAnnotation(s, addr, Name, Count) ==
  IF s.d.Annot[addr][Name] # <<>>
  THEN [s EXCEPT !.Duplicates = @ + 1]
  ELSE [s EXCEPT !.d.Annot[addr][Name] = <<Count>>]

\* The callee of a call site: YamlProfileToFunction[DestId] when DestId is
\* in range, and its symbol for the entry discriminator.
CalleeSymbolOf(YamlCSI) ==
  IF YamlCSI.DestId < Len(YamlProfileToFunction)
     /\ YamlProfileToFunction[YamlCSI.DestId + 1] # NullBF
  THEN <<YamlProfileToFunction[YamlCSI.DestId + 1], YamlCSI.EntryDiscriminator>>
  ELSE NullSym

\* BF.getAllCallSites().emplace_back(...)
AppendCallSite(s, YamlCSI) ==
  [s EXCEPT !.d.AllCallSites =
     Append(@, [Symbol |-> CalleeSymbolOf(YamlCSI), Count |-> YamlCSI.Count,
                Mispreds |-> YamlCSI.Mispreds, Offset |-> YamlCSI.Offset])]

\* The annotation of a call site with "Count" added to a direct call
\* without the lambda setAnnotation.
AnnotateCallSite_AddCount(s1, bf, bb, YamlCSI) ==
  LET addr == BlockOf(bf, bb).InputOffset + YamlCSI.Offset
      Instrs == BinaryFunctions[bf].Instrs
  IN IF YamlCSI.Offset >= BlockOf(bf, bb).OriginalSize
     THEN [s1 EXCEPT !.MismatchedCalls = @ + 1]
     ELSE IF addr \notin DOMAIN Instrs
       THEN [s1 EXCEPT !.MismatchedCalls = @ + 1]
     ELSE IF ~Instrs[addr].isCall /\ ~Instrs[addr].isIndirectBranch
       THEN [s1 EXCEPT !.MismatchedCalls = @ + 1]
     ELSE IF Instrs[addr].isIndirectCall \/ Instrs[addr].isIndirectBranch
       THEN [s1 EXCEPT !.d.Annot[addr].CallProfile =
               Append(@, [Symbol |-> CalleeSymbolOf(YamlCSI),
                          Count |-> YamlCSI.Count,
                          Mispreds |-> YamlCSI.Mispreds])]
     ELSE IF Instrs[addr].ConditionalTailCall
       THEN setAnnotation(setAnnotation(s1, addr, "CTCTakenCount", YamlCSI.Count),
                          addr, "CTCMispredCount", YamlCSI.Mispreds)
     ELSE [s1 EXCEPT !.d.Annot[addr].Count = <<YamlCSI.Count>>]

\* The checks of the instruction at the call site's offset, and the
\* annotation; s1 is the state after the call site was appended.
AnnotateCallSite(s1, bf, bb, YamlCSI) ==
  LET addr == BlockOf(bf, bb).InputOffset + YamlCSI.Offset
      Instrs == BinaryFunctions[bf].Instrs
  IN IF YamlCSI.Offset >= BlockOf(bf, bb).OriginalSize
     THEN [s1 EXCEPT !.MismatchedCalls = @ + 1]
     ELSE IF addr \notin DOMAIN Instrs
       THEN [s1 EXCEPT !.MismatchedCalls = @ + 1]
     ELSE IF ~Instrs[addr].isCall /\ ~Instrs[addr].isIndirectBranch
       THEN [s1 EXCEPT !.MismatchedCalls = @ + 1]
     ELSE IF Instrs[addr].isIndirectCall \/ Instrs[addr].isIndirectBranch
       THEN [s1 EXCEPT !.d.Annot[addr].CallProfile =
               Append(@, [Symbol |-> CalleeSymbolOf(YamlCSI),
                          Count |-> YamlCSI.Count,
                          Mispreds |-> YamlCSI.Mispreds])]
     ELSE IF Instrs[addr].ConditionalTailCall
       THEN setAnnotation(setAnnotation(s1, addr, "CTCTakenCount", YamlCSI.Count),
                          addr, "CTCMispredCount", YamlCSI.Mispreds)
     ELSE setAnnotation(s1, addr, "Count", YamlCSI.Count)

\* One iteration with the bounds test ahead of the append to the list.
ParseCallSite_BoundsFirst(s, bf, bb, YamlCSI) ==
  IF YamlCSI.Offset >= BlockOf(bf, bb).OriginalSize
  THEN [s EXCEPT !.MismatchedCalls = @ + 1]
  ELSE AnnotateCallSite(AppendCallSite(s, YamlCSI), bf, bb, YamlCSI)

\* One iteration of the loop over YamlBB.CallSites.
ParseCallSite(s, bf, bb, YamlCSI) ==
  AnnotateCallSite(AppendCallSite(s, YamlCSI), bf, bb, YamlCSI)

RECURSIVE ParseCallSites(_, _, _, _)
ParseCallSites(s, bf, bb, sites) ==
  IF sites = <<>> THEN s
  ELSE ParseCallSites(ParseCallSite(s, bf, bb, Head(sites)), bf, bb, Tail(sites))

\* The pass-through test: FT has exactly one successor, which is ToBB.
IsPassThrough(bf, FT, ToBB) ==
  /\ FT # NullBlock
  /\ Len(BlockOf(bf, FT).Successors) = 1
  /\ SuccPos(bf, FT, ToBB) # 0

\* The successor loop without "Allow passthrough blocks": an entry whose
\* target is no successor of bb is an edge mismatch.
ParseSuccessorTo_NoPassThrough(s, bf, bb, ToBB, FT, YamlSI) ==
  IF SuccPos(bf, bb, ToBB) # 0
  THEN [s EXCEPT !.d = AddBranchInfo(@, bf, bb, ToBB,
                                     YamlSI.Count, YamlSI.Mispreds)]
  ELSE [s EXCEPT !.MismatchedEdges = @ + 1]

\* A successor entry whose index is in range; ToBB is the block it names
\* and FT the false-branch successor of bb.
ParseSuccessorTo(s, bf, bb, ToBB, FT, YamlSI) ==
  IF SuccPos(bf, bb, ToBB) # 0
  THEN [s EXCEPT !.d = AddBranchInfo(@, bf, bb, ToBB,
                                     YamlSI.Count, YamlSI.Mispreds)]
  ELSE IF IsPassThrough(bf, FT, ToBB)
    THEN [s EXCEPT !.d =
            AddBranchInfo(
              AddBranchInfo(@, bf, FT, ToBB, YamlSI.Count, YamlSI.Mispreds),
              bf, bb, FT, YamlSI.Count, YamlSI.Mispreds)]
  ELSE [s EXCEPT !.MismatchedEdges = @ + 1]

\* One iteration of the loop over YamlBB.Successors.
ParseSuccessor(s, bf, bb, YamlSI) ==
  IF YamlSI.Index >= Len(Order(bf))
  THEN [s EXCEPT !.MismatchedEdges = @ + 1]
  ELSE ParseSuccessorTo(s, bf, bb, Order(bf)[YamlSI.Index + 1],
                        getConditionalSuccessor(bf, bb, FALSE), YamlSI)

RECURSIVE ParseSuccessors(_, _, _, _)
ParseSuccessors(s, bf, bb, succs) ==
  IF succs = <<>> THEN s
  ELSE ParseSuccessors(ParseSuccessor(s, bf, bb, Head(succs)), bf, bb, Tail(succs))

\* The normalizer with the tests in the other order: by calls first.
NumSamples_CallsFirst(bf, bb, YamlBB) ==
  LET N == Mul(YamlBB.EventCount, 1000)
  IN IF NormalizeByCalls
     THEN N \div (BlockOf(bf, bb).NumCalls + 1)
     ELSE IF NormalizeByInsnCount /\ BlockOf(bf, bb).NumNonPseudos # 0
       THEN N \div BlockOf(bf, bb).NumNonPseudos
     ELSE N

\* The number of samples of a block in sample mode.
NumSamples(bf, bb, YamlBB) ==
  LET N == Mul(YamlBB.EventCount, 1000)
  IN IF NormalizeByInsnCount /\ BlockOf(bf, bb).NumNonPseudos # 0
     THEN N \div BlockOf(bf, bb).NumNonPseudos
     ELSE IF NormalizeByCalls
       THEN N \div (BlockOf(bf, bb).NumCalls + 1)
     ELSE N

\* A block in sample mode; n is its number of samples.
SetSamples(s, bf, bb, n) ==
  [s EXCEPT !.d.BlockExec[bb + 1] = n,
            !.FunctionExecutionCount =
               IF BlockOf(bf, bb).isEntryPoint THEN Add(@, n) ELSE @]

\* The block loop without the "continue" of sample mode: call sites and
\* successors are processed in sample mode too.
ParseBlockAt_NoSampleSkip(s, bf, bb, YamlBB) ==
  ParseSuccessors(
    ParseCallSites(
      IF IsSample
      THEN IF YamlBB.EventCount = 0
           THEN [s EXCEPT !.d.BlockExec[bb + 1] = 0]
           ELSE SetSamples(s, bf, bb, NumSamples(bf, bb, YamlBB))
      ELSE [s EXCEPT !.d.BlockExec[bb + 1] = YamlBB.ExecCount],
      bf, bb, YamlBB.CallSites),
    bf, bb, YamlBB.Successors)

\* One iteration of the loop over YamlBF.Blocks, for a block in range.
ParseBlockAt(s, bf, bb, YamlBB) ==
  IF IsSample
  THEN IF YamlBB.EventCount = 0
       THEN [s EXCEPT !.d.BlockExec[bb + 1] = 0]
       ELSE SetSamples(s, bf, bb, NumSamples(bf, bb, YamlBB))
  ELSE ParseSuccessors(
         ParseCallSites([s EXCEPT !.d.BlockExec[bb + 1] = YamlBB.ExecCount],
                        bf, bb, YamlBB.CallSites),
         bf, bb, YamlBB.Successors)

\* One iteration of the loop over YamlBF.Blocks.
ParseBlock(s, bf, YamlBB) ==
  IF YamlBB.Index >= Len(Order(bf))
  THEN [s EXCEPT !.MismatchedBlocks = @ + 1]
  ELSE ParseBlockAt(s, bf, Order(bf)[YamlBB.Index + 1], YamlBB)

RECURSIVE ParseBlocks(_, _, _)
ParseBlocks(s, bf, blocks) ==
  IF blocks = <<>> THEN s
  ELSE ParseBlocks(ParseBlock(s, bf, Head(blocks)), bf, Tail(blocks))

\* The start of parseFunctionProfile: the whole-function counters.
SetFunctionCounts(d, YamlBF) ==
  [d EXCEPT !.ExecutionCount = YamlBF.ExecCount,
            !.RawBranchCount = FuncRawBranchCount(YamlBF.Blocks)]

\* The hash check without the block-count check.
CheckShape_NoBlockCount(bf, d, YamlBF) ==
  LET d2 == IF ~opts.IgnoreHash /\ d.Hash = 0 THEN computeHash(bf, d) ELSE d
  IN [d |-> d2,
      ProfileMatched |-> opts.IgnoreHash \/ YamlBF.Hash = d2.Hash,
      MismatchedBlocks |-> 0, MismatchedCalls |-> 0, MismatchedEdges |-> 0,
      FunctionExecutionCount |-> 0, Duplicates |-> 0]

\* The hash and block-count checks; d has the function counters set.
\* ProfileMatched is the flag of the code at the start of the block loop.
CheckShape(bf, d, YamlBF) ==
  LET d2 == IF ~opts.IgnoreHash /\ d.Hash = 0 THEN computeHash(bf, d) ELSE d
  IN [d |-> d2,
      ProfileMatched |-> /\ (opts.IgnoreHash \/ YamlBF.Hash = d2.Hash)
                         /\ YamlBF.NumBasicBlocks = BFSize(bf),
      MismatchedBlocks |-> 0, MismatchedCalls |-> 0, MismatchedEdges |-> 0,
      FunctionExecutionCount |-> 0, Duplicates |-> 0]

\* What follows the block loop; s is the state the loop ended in and infer
\* is what inferStaleProfile returns if it is called.
FinishParse(bf, YamlBF, infer, s) ==
  LET d3 == [s.d EXCEPT !.BlockExec =
               [b \in DOMAIN @ |-> IF @[b] = COUNT_NO_PROFILE THEN 0 ELSE @[b]]]
      d4 == IF IsSample
            THEN [d3 EXCEPT !.ExecutionCount = s.FunctionExecutionCount]
            ELSE d3
      Matched == /\ s.ProfileMatched
                 /\ s.MismatchedBlocks = 0
                 /\ s.MismatchedCalls = 0
                 /\ s.MismatchedEdges = 0
      InferCalled == ~Matched /\ opts.InferStaleProfile
      ProfileMatched == Matched \/ (InferCalled /\ infer)
  IN [d |-> IF ProfileMatched THEN markProfiled(d4, Header.Flags) ELSE d4,
      ret |-> ProfileMatched, early |-> FALSE,
      MismatchedBlocks |-> s.MismatchedBlocks,
      MismatchedCalls |-> s.MismatchedCalls,
      MismatchedEdges |-> s.MismatchedEdges,
      Duplicates |-> s.Duplicates,
      InferCalled |-> InferCalled, InferReturned |-> InferCalled /\ infer,
      Marked |-> ProfileMatched,
      Stale |-> IF ~Matched /\ YamlBF.NumBasicBlocks # BFSize(bf) THEN 1 ELSE 0]

\* The return for an empty function after a call of markProfiled.
EmptyFunctionReturn_Marked(d) ==
  [d |-> markProfiled(d, Header.Flags), ret |-> TRUE, early |-> TRUE,
   MismatchedBlocks |-> 0, MismatchedCalls |-> 0, MismatchedEdges |-> 0,
   Duplicates |-> 0, InferCalled |-> FALSE, InferReturned |-> FALSE,
   Marked |-> TRUE, Stale |-> 0]

\* The return for an empty function; d has the function counters set.
EmptyFunctionReturn(d) ==
  [d |-> d, ret |-> TRUE, early |-> TRUE,
   MismatchedBlocks |-> 0, MismatchedCalls |-> 0, MismatchedEdges |-> 0,
   Duplicates |-> 0, InferCalled |-> FALSE, InferReturned |-> FALSE,
   Marked |-> FALSE, Stale |-> 0]

\* parseFunctionProfile with the test for an empty function ahead of the
\* whole-function counters.
parseFunctionProfile_EmptyFirst(bf, d0, YamlBF, infer) ==
  IF BFEmpty(bf)
  THEN EmptyFunctionReturn(d0)
  ELSE FinishParse(bf, YamlBF, infer,
         ParseBlocks(CheckShape(bf, SetFunctionCounts(d0, YamlBF), YamlBF),
                     bf, YamlBF.Blocks))

\* The whole of parseFunctionProfile on the function bf in state d0.  The
\* result carries the new state of the function (d), the verdict (ret) and
\* what the invocation did.
parseFunctionProfile(bf, d0, YamlBF, infer) ==
  IF BFEmpty(bf)
  THEN EmptyFunctionReturn(SetFunctionCounts(d0, YamlBF))
  ELSE FinishParse(bf, YamlBF, infer,
         ParseBlocks(CheckShape(bf, SetFunctionCounts(d0, YamlBF), YamlBF),
                     bf, YamlBF.Blocks))

(***************************************************************************)
(* buildNameMaps and preprocessProfile.                                    *)
(***************************************************************************)
NumFunctions == Len(Functions)

\* The lambda lookupFunction: BC.getBinaryDataByName, BC.getFunctionForSymbol.
lookupFunction(Name) ==
  IF \E bf \in BinaryFunctionIds : Name \in BinaryFunctions[bf].Names
  THEN CHOOSE bf \in BinaryFunctionIds : Name \in BinaryFunctions[bf].Names
  ELSE NullBF

\* YamlBP.Header.EventNames.find(',') != npos
HasComma(EventNames) == EventNames.comma

\* usesEvent: EventNames.find(Name) != npos
usesEvent(Name) == Name \in Header.EventNames.words

\* The first loop of buildNameMaps, over YamlBP.Functions.
BuildProfileFunctionNames == {CleanName(Functions[i].Name) : i \in 1..NumFunctions}

BuildProfileBFs == [i \in 1..NumFunctions |-> lookupFunction(CleanName(Functions[i].Name))]

BuildLTOCommonNameMap ==
  LET CommonOf(i) == getLTOCommonName(CleanName(Functions[i].Name))
      Keys == {CommonOf(i)[1] : i \in {j \in 1..NumFunctions : CommonOf(j) # <<>>}}
  IN [c \in Keys |-> SelectSeq([i \in 1..NumFunctions |-> i],
                               LAMBDA i : CommonOf(i) = <<c>>)]

\* The second loop of buildNameMaps, over BC.SymbolToFunctionMap.
BuildLTOCommonNameFunctionMap ==
  LET Symbols == UNION {{<<n, bf>> : n \in BinaryFunctions[bf].Names} :
                          bf \in BinaryFunctionIds}
      Common == {p \in Symbols : getLTOCommonName(p[1]) # <<>>}
  IN [c \in {getLTOCommonName(p[1])[1] : p \in Common} |->
        {p[2] : p \in {q \in Common : getLTOCommonName(q[1]) = <<c>>}}]

\* The preliminary loop with the duplicate's slot nulled inside the block of
\* the verbosity test.
RECURSIVE PreliminaryAssign_DropWhenVerbose(_, _)
PreliminaryAssign_DropWhenVerbose(st, i) ==
  IF i > NumFunctions THEN st
  ELSE LET bf == st.ProfileBFs[i]
       IN IF bf = NullBF THEN PreliminaryAssign_DropWhenVerbose(st, i + 1)
          ELSE IF ~hasProfile(st.BF[bf])
            THEN PreliminaryAssign_DropWhenVerbose(
                   [st EXCEPT !.BF[bf].ExecutionCount = Functions[i].ExecCount],
                   i + 1)
          ELSE IF opts.Verbosity >= 1
            THEN PreliminaryAssign_DropWhenVerbose(
                   [st EXCEPT !.ProfileBFs[i] = NullBF], i + 1)
          ELSE PreliminaryAssign_DropWhenVerbose(st, i + 1)

\* The loop "Preliminary assign function execution count", from record i on:
\* st.BF is the state of the binary functions, st.ProfileBFs the vector.
RECURSIVE PreliminaryAssign(_, _)
PreliminaryAssign(st, i) ==
  IF i > NumFunctions THEN st
  ELSE LET bf == st.ProfileBFs[i]
       IN IF bf = NullBF THEN PreliminaryAssign(st, i + 1)
          ELSE IF ~hasProfile(st.BF[bf])
            THEN PreliminaryAssign(
                   [st EXCEPT !.BF[bf].ExecutionCount = Functions[i].ExecCount],
                   i + 1)
          ELSE PreliminaryAssign([st EXCEPT !.ProfileBFs[i] = NullBF], i + 1)

\* preprocessProfile without the sanity check of the header version.
PreprocessError_NoVersionCheck ==
  IF loadStatus = "open_error" THEN "cannot open"
  ELSE IF loadStatus = "syntax_error" THEN "syntax error"
  ELSE IF HasComma(Header.EventNames) THEN "multiple events"
  ELSE ""

\* The error preprocessProfile returns before it builds anything, "" if none.
PreprocessError ==
  IF loadStatus = "open_error" THEN "cannot open"
  ELSE IF loadStatus = "syntax_error" THEN "syntax error"
  ELSE IF Header.Version # 1 THEN "unsupported version"
  ELSE IF HasComma(Header.EventNames) THEN "multiple events"
  ELSE ""

preprocessProfileFails ==
  /\ pc = "start"
  /\ PreprocessError # ""
  /\ pc' = "failed"
  /\ result' = PreprocessError
  /\ UNCHANGED <<inputs, tables, matcher, normalize, BF, parseLog, nParses, idx>>

preprocessProfile ==
  /\ pc = "start"
  /\ PreprocessError = ""
  /\ LET st == PreliminaryAssign([BF |-> BF, ProfileBFs |-> BuildProfileBFs], 1)
     IN /\ BF' = st.BF
        /\ ProfileBFs' = st.ProfileBFs
  /\ ProfileFunctionNames' = BuildProfileFunctionNames
  /\ LTOCommonNameMap' = BuildLTOCommonNameMap
  /\ LTOCommonNameFunctionMap' = BuildLTOCommonNameFunctionMap
  /\ pc' = "preprocessed"
  /\ result' = "success"
  /\ UNCHANGED <<inputs, matcher, normalize, parseLog, nParses, idx>>

(***************************************************************************)
(* readProfile: the matching stages.  The stages work on the matcher       *)
(* state m: the Used flags, YamlProfileToFunction, ProfiledFunctions, the  *)
(* statistics counters and the history of claims.                          *)
(***************************************************************************)
Matcher ==
  [Used |-> Used, Y2F |-> YamlProfileToFunction, PF |-> ProfiledFunctions,
   Log |-> claimLog,
   MatchedWithExactName |-> Stats.MatchedWithExactName,
   MatchedWithHash |-> Stats.MatchedWithHash,
   MatchedWithLTOCommonName |-> Stats.MatchedWithLTOCommonName,
   MatchedWithNameSimilarity |-> Stats.MatchedWithNameSimilarity]

SetMatcher(m) ==
  /\ Used' = m.Used
  /\ YamlProfileToFunction' = m.Y2F
  /\ ProfiledFunctions' = m.PF
  /\ claimLog' = m.Log
  /\ Stats' = [Stats EXCEPT
       !.MatchedWithExactName = m.MatchedWithExactName,
       !.MatchedWithHash = m.MatchedWithHash,
       !.MatchedWithLTOCommonName = m.MatchedWithLTOCommonName,
       !.MatchedWithNameSimilarity = m.MatchedWithNameSimilarity]

\* std::vector::resize: new elements are null.
Resize(v, n) ==
  IF Len(v) >= n THEN SubSeq(v, 1, n)
  ELSE v \o [k \in 1..(n - Len(v)) |-> NullBF]

\* matchProfileToFunction: record i claims the binary function bf.  The
\* history notes the stage and whether bf already had a profile assigned.
matchProfileToFunction(m, i, bf, stage) ==
  LET Id == Functions[i].Id
      Y == IF Id >= Len(m.Y2F) THEN Resize(m.Y2F, Id + 1) ELSE m.Y2F
  IN [m EXCEPT !.Y2F = [Y EXCEPT ![Id + 1] = bf],
               !.Used[i] = TRUE,
               !.PF = @ \cup {bf},
               !.Log = Append(@, [rec |-> i, bf |-> bf, stage |-> stage,
                                  again |-> bf \in m.PF])]

\* The lambda profileMatches; BF.getHash() is 0 until the hash is computed.
profileMatches(i, bf) ==
  IF opts.IgnoreHash
  THEN Functions[i].NumBasicBlocks = BFSize(bf)
  ELSE Functions[i].Hash = BF[bf].Hash

\* "Computes hash for binary functions": the functions whose hash readProfile
\* computes before matching.
HashedFunctions ==
  IF opts.MatchProfileWithFunctionHash THEN BinaryFunctionIds
  ELSE IF ~opts.IgnoreHash
    THEN {ProfileBFs[i] : i \in 1..NumFunctions} \ {NullBF}
  ELSE {}

readProfileBegin ==
  /\ pc = "preprocessed"
  /\ YamlProfileToFunction' = Resize(YamlProfileToFunction, NumFunctions + 1)
  /\ BF' = [bf \in BinaryFunctionIds |->
              IF bf \in HashedFunctions THEN computeHash(bf, BF[bf]) ELSE BF[bf]]
  /\ pc' = "exact"
  /\ UNCHANGED <<inputs, tables, normalize, Used, ProfiledFunctions, Stats, claimLog,
                 result, parseLog, nParses, idx>>

\* The first pass leaving every record to the hash stage when
\* match-profile-with-function-hash is enabled.
ExactBody_HashFirst(m, i) ==
  LET bf == ProfileBFs[i]
  IN IF bf # NullBF /\ profileMatches(i, bf)
        /\ ~opts.MatchProfileWithFunctionHash
     THEN [matchProfileToFunction(m, i, bf, "exact")
             EXCEPT !.MatchedWithExactName = @ + 1]
     ELSE m

\* S2, "This first pass assigns profiles that match 100% by name and by hash".
ExactBody(m, i) ==
  LET bf == ProfileBFs[i]
  IN IF bf # NullBF /\ profileMatches(i, bf)
     THEN [matchProfileToFunction(m, i, bf, "exact")
             EXCEPT !.MatchedWithExactName = @ + 1]
     ELSE m

RECURSIVE ExactLoop(_, _)
ExactLoop(m, i) ==
  IF i > NumFunctions THEN m ELSE ExactLoop(ExactBody(m, i), i + 1)

ExactStage ==
  /\ pc = "exact"
  /\ SetMatcher(ExactLoop(Matcher, 1))
  /\ BF' = [bf \in BinaryFunctionIds |->
              IF \E i \in 1..NumFunctions : ProfileBFs[i] = bf
              THEN [BF[bf] EXCEPT !.ExecutionCount = COUNT_NO_PROFILE]
              ELSE BF[bf]]
  /\ pc' = "hash"
  /\ UNCHANGED <<inputs, tables, normalize, result, parseLog, nParses, idx>>

\* The hash map filled with try_emplace: the first function of a hash stays.
StrictHashToBF_FirstWins ==
  LET Hashes == {BF[bf].Hash : bf \in BinaryFunctionIds}
      First(h) == CHOOSE k \in 1..Len(AllBinaryFunctions) :
                    /\ BF[AllBinaryFunctions[k]].Hash = h
                    /\ \A j \in 1..(k - 1) : BF[AllBinaryFunctions[j]].Hash # h
  IN [h \in Hashes |-> AllBinaryFunctions[First(h)]]

\* S3: StrictHashToBF[BF.getHash()] = &BF over BC.getBinaryFunctions(); a
\* later function with the same hash replaces an earlier one.
StrictHashToBF ==
  LET Hashes == {BF[bf].Hash : bf \in BinaryFunctionIds}
      Last(h) == CHOOSE k \in 1..Len(AllBinaryFunctions) :
                   /\ BF[AllBinaryFunctions[k]].Hash = h
                   /\ \A j \in (k + 1)..Len(AllBinaryFunctions) :
                        BF[AllBinaryFunctions[j]].Hash # h
  IN [h \in Hashes |-> AllBinaryFunctions[Last(h)]]

HashBody(m, i) ==
  IF m.Used[i] THEN m
  ELSE IF /\ Functions[i].Hash \in DOMAIN StrictHashToBF
          /\ StrictHashToBF[Functions[i].Hash] \notin m.PF
    THEN [matchProfileToFunction(m, i, StrictHashToBF[Functions[i].Hash], "hash")
            EXCEPT !.MatchedWithHash = @ + 1]
  ELSE m

RECURSIVE HashLoop(_, _)
HashLoop(m, i) ==
  IF i > NumFunctions THEN m ELSE HashLoop(HashBody(m, i), i + 1)

HashStage ==
  /\ pc = "hash"
  /\ SetMatcher(IF opts.MatchProfileWithFunctionHash
                THEN HashLoop(Matcher, 1) ELSE Matcher)
  /\ pc' = "lto"
  /\ UNCHANGED <<inputs, tables, normalize, BF, result, parseLog, nParses, idx>>

\* The orders in which a container without a specified iteration order
\* (StringMap, std::unordered_set) may be walked.
Orders(S) ==
  {p \in [1..Cardinality(S) -> S] : \A a, b \in DOMAIN p : a # b => p[a] # p[b]}

\* S4, "This second pass allows name ambiguity for LTO private functions".
\* The lambda matchProfile on record i; fseq is the bucket Functions in its
\* iteration order.  The result is the matcher state and the lambda's value.
matchProfile(m, i, fseq) ==
  LET Hit(k) == fseq[k] \notin m.PF /\ profileMatches(i, fseq[k])
  IN IF m.Used[i] \/ ~\E k \in 1..Len(fseq) : Hit(k)
     THEN [m |-> m, matched |-> FALSE]
     ELSE LET k == CHOOSE k \in 1..Len(fseq) :
                     Hit(k) /\ \A j \in 1..(k - 1) : ~Hit(j)
          IN [m |-> [matchProfileToFunction(m, i, fseq[k], "lto")
                       EXCEPT !.MatchedWithLTOCommonName = @ + 1],
              matched |-> TRUE]

\* matchProfile applied to every record of the bucket, without the stop at
\* the first match.
RECURSIVE AnyOfMatchProfile_NoStop(_, _, _)
AnyOfMatchProfile_NoStop(m, profiles, fseq) ==
  IF profiles = <<>> THEN [m |-> m, matched |-> FALSE]
  ELSE LET r == matchProfile(m, Head(profiles), fseq)
           t == AnyOfMatchProfile_NoStop(r.m, Tail(profiles), fseq)
       IN [m |-> t.m, matched |-> r.matched \/ t.matched]

\* llvm::any_of(LTOProfiles, matchProfile): stops at the first match.
RECURSIVE AnyOfMatchProfile(_, _, _)
AnyOfMatchProfile(m, profiles, fseq) ==
  IF profiles = <<>> THEN [m |-> m, matched |-> FALSE]
  ELSE LET r == matchProfile(m, Head(profiles), fseq)
       IN IF r.matched THEN r ELSE AnyOfMatchProfile(r.m, Tail(profiles), fseq)

\* The body of the loop with the partial match tried whatever the sizes of
\* the two buckets are.
LTOBody_AnyBucketSize(m, c, fseq) ==
  LET LTOProfiles == LTOCommonNameMap[c]
      r == AnyOfMatchProfile(m, LTOProfiles, fseq)
  IN IF /\ ~r.matched
        /\ ~r.m.Used[LTOProfiles[1]]
        /\ fseq[1] \notin r.m.PF
     THEN [matchProfileToFunction(r.m, LTOProfiles[1], fseq[1], "lto")
             EXCEPT !.MatchedWithLTOCommonName = @ + 1]
     ELSE r.m

\* The body of the loop over LTOCommonNameMap for the common name c.
LTOBody(m, c, fseq) ==
  LET LTOProfiles == LTOCommonNameMap[c]
      r == AnyOfMatchProfile(m, LTOProfiles, fseq)
  IN IF /\ ~r.matched
        /\ Len(LTOProfiles) = 1
        /\ Len(fseq) = 1
        /\ ~r.m.Used[LTOProfiles[1]]
        /\ fseq[1] \notin r.m.PF
     THEN [matchProfileToFunction(r.m, LTOProfiles[1], fseq[1], "lto")
             EXCEPT !.MatchedWithLTOCommonName = @ + 1]
     ELSE r.m

RECURSIVE LTOLoop(_, _, _)
LTOLoop(m, keys, forder) ==
  IF keys = <<>> THEN m
  ELSE IF Head(keys) \notin DOMAIN LTOCommonNameFunctionMap
    THEN LTOLoop(m, Tail(keys), forder)
  ELSE LTOLoop(LTOBody(m, Head(keys), forder[Head(keys)]), Tail(keys), forder)

LTOStage ==
  /\ pc = "lto"
  /\ \E keys \in Orders(DOMAIN LTOCommonNameMap) :
       \E forder \in [DOMAIN LTOCommonNameFunctionMap ->
                        UNION {Orders(LTOCommonNameFunctionMap[c]) :
                                 c \in DOMAIN LTOCommonNameFunctionMap}] :
         /\ \A c \in DOMAIN forder :
              forder[c] \in Orders(LTOCommonNameFunctionMap[c])
         /\ SetMatcher(LTOLoop(Matcher, keys, forder))
  /\ pc' = "residual"
  /\ UNCHANGED <<inputs, tables, normalize, BF, result, parseLog, nParses, idx>>

\* The residual loop without the test of ProfiledFunctions.
ResidualBody_NoProfiledCheck(m, i) ==
  IF ~m.Used[i] /\ ProfileBFs[i] # NullBF
  THEN matchProfileToFunction(m, i, ProfileBFs[i], "residual")
  ELSE m

\* The residual loop writing the slot of YamlProfileToFunction without the
\* record's Used flag.
ResidualBody_NoUsed(m, i) ==
  IF ~m.Used[i] /\ ProfileBFs[i] # NullBF /\ ProfileBFs[i] \notin m.PF
  THEN [matchProfileToFunction(m, i, ProfileBFs[i], "residual")
          EXCEPT !.Used = m.Used]
  ELSE m

\* S5: the loop that binds what name lookup paired and no stage claimed.
ResidualBody(m, i) ==
  IF ~m.Used[i] /\ ProfileBFs[i] # NullBF /\ ProfileBFs[i] \notin m.PF
  THEN matchProfileToFunction(m, i, ProfileBFs[i], "residual")
  ELSE m

RECURSIVE ResidualLoop(_, _)
ResidualLoop(m, i) ==
  IF i > NumFunctions THEN m ELSE ResidualLoop(ResidualBody(m, i), i + 1)

ResidualStage ==
  /\ pc = "residual"
  /\ SetMatcher(ResidualLoop(Matcher, 1))
  /\ pc' = "similarity"
  /\ UNCHANGED <<inputs, tables, normalize, BF, result, parseLog, nParses, idx>>

\* S6, matchWithNameSimilarity.
NamespaceToProfiledBFSizes ==
  [ns \in {DeriveNameSpace(Functions[i].Name) : i \in 1..NumFunctions} |->
     {Functions[i].NumBasicBlocks :
        i \in {j \in 1..NumFunctions : DeriveNameSpace(Functions[j].Name) = ns}}]

NamespaceToBFs ==
  LET Kept(bf) == /\ BFNameSpace(bf) \in DOMAIN NamespaceToProfiledBFSizes
                  /\ BFSize(bf) \in NamespaceToProfiledBFSizes[BFNameSpace(bf)]
  IN [ns \in {BFNameSpace(bf) : bf \in {b \in BinaryFunctionIds : Kept(b)}} |->
        SelectSeq(AllBinaryFunctions, LAMBDA bf : Kept(bf) /\ BFNameSpace(bf) = ns)]

\* The scan "Determines BF the closest to the profiled function": the
\* candidates of record i in scan order, and the first of least distance.
SimilarityCandidates(m, i) ==
  SelectSeq(NamespaceToBFs[DeriveNameSpace(Functions[i].Name)],
            LAMBDA bf : bf \notin m.PF /\ BFSize(bf) = Functions[i].NumBasicBlocks)

EditDistanceTo(i, bf) ==
  edit_distance(BFDemangledName(bf), DemangleName(Functions[i].Name))

\* The scan keeping the later candidate when two are at the same distance.
ClosestNameBF_LastOnTies(m, i) ==
  LET C == SimilarityCandidates(m, i)
  IN IF C = <<>> THEN NullBF
     ELSE C[CHOOSE k \in 1..Len(C) :
              /\ \A j \in 1..Len(C) : EditDistanceTo(i, C[k]) <= EditDistanceTo(i, C[j])
              /\ \A j \in (k + 1)..Len(C) : EditDistanceTo(i, C[j]) > EditDistanceTo(i, C[k])]

ClosestNameBF(m, i) ==
  LET C == SimilarityCandidates(m, i)
  IN IF C = <<>> THEN NullBF
     ELSE C[CHOOSE k \in 1..Len(C) :
              /\ \A j \in 1..Len(C) : EditDistanceTo(i, C[k]) <= EditDistanceTo(i, C[j])
              /\ \A j \in 1..(k - 1) : EditDistanceTo(i, C[j]) > EditDistanceTo(i, C[k])]

SimilarityBody(m, i) ==
  IF m.Used[i] THEN m
  ELSE IF DeriveNameSpace(Functions[i].Name) \notin DOMAIN NamespaceToBFs THEN m
  ELSE IF /\ ClosestNameBF(m, i) # NullBF
          /\ EditDistanceTo(i, ClosestNameBF(m, i))
               <= opts.NameSimilarityFunctionMatchingThreshold
    THEN [matchProfileToFunction(m, i, ClosestNameBF(m, i), "similarity")
            EXCEPT !.MatchedWithNameSimilarity = @ + 1]
  ELSE m

RECURSIVE SimilarityLoop(_, _)
SimilarityLoop(m, i) ==
  IF i > NumFunctions THEN m ELSE SimilarityLoop(SimilarityBody(m, i), i + 1)

\* The call of matchWithNameSimilarity and the lines up to the propagation
\* loop, which set NormalizeByInsnCount and NormalizeByCalls.
SimilarityStage ==
  /\ pc = "similarity"
  /\ SetMatcher(IF opts.NameSimilarityFunctionMatchingThreshold > 0
                THEN SimilarityLoop(Matcher, 1) ELSE Matcher)
  /\ NormalizeByInsnCount' = (usesEvent("cycles") \/ usesEvent("instructions"))
  /\ NormalizeByCalls' = usesEvent("branches")
  /\ pc' = "propagate"
  /\ idx' = 1
  /\ UNCHANGED <<inputs, tables, BF, result, parseLog, nParses>>

(***************************************************************************)
(* readProfile: the propagation loop and the end.                          *)
(***************************************************************************)
ParseRecord(i, bf, r) ==
  [rec |-> i, bf |-> bf, ret |-> r.ret, early |-> r.early,
   MismatchedBlocks |-> r.MismatchedBlocks,
   MismatchedCalls |-> r.MismatchedCalls,
   MismatchedEdges |-> r.MismatchedEdges,
   Duplicates |-> r.Duplicates, InferCalled |-> r.InferCalled,
   InferReturned |-> r.InferReturned,
   Marked |-> r.Marked, before |-> BF[bf], claims |-> Len(claimLog)]

\* One iteration of the loop that propagates, taking the function from the
\* name lookup instead of YamlProfileToFunction.
PropagateBody_ByName ==
  /\ pc = "propagate"
  /\ idx <= NumFunctions
  /\ LET YamlBF == Functions[idx]
         bf == ProfileBFs[idx]
     IN IF bf = NullBF
        THEN /\ Stats' = [Stats EXCEPT !.NumUnused = @ + 1]
             /\ UNCHANGED <<BF, parseLog>>
        ELSE \E infer \in BOOLEAN :
               LET r == parseFunctionProfile(bf, BF[bf], YamlBF, infer)
               IN /\ BF' = [BF EXCEPT ![bf] = r.d]
                  /\ parseLog' = Append(parseLog, ParseRecord(idx, bf, r))
                  /\ Stats' = [Stats EXCEPT
                       !.NumStaleFuncsWithEqualBlockCount = @ + r.Stale]
  /\ idx' = idx + 1
  /\ UNCHANGED <<pc, inputs, tables, normalize, Used, YamlProfileToFunction,
                 ProfiledFunctions, claimLog, result, nParses>>

\* One iteration of the loop over YamlBP.Functions that propagates.
PropagateBody ==
  /\ pc = "propagate"
  /\ idx <= NumFunctions
  /\ LET YamlBF == Functions[idx]
         bf == IF YamlBF.Id >= Len(YamlProfileToFunction) THEN NullBF
               ELSE YamlProfileToFunction[YamlBF.Id + 1]
     IN IF bf = NullBF
        THEN /\ Stats' = [Stats EXCEPT !.NumUnused = @ + 1]
             /\ UNCHANGED <<BF, parseLog>>
        ELSE \E infer \in BOOLEAN :
               LET r == parseFunctionProfile(bf, BF[bf], YamlBF, infer)
               IN /\ BF' = [BF EXCEPT ![bf] = r.d]
                  /\ parseLog' = Append(parseLog, ParseRecord(idx, bf, r))
                  /\ Stats' = [Stats EXCEPT
                       !.NumStaleFuncsWithEqualBlockCount = @ + r.Stale]
  /\ idx' = idx + 1
  /\ UNCHANGED <<pc, inputs, tables, normalize, Used, YamlProfileToFunction,
                 ProfiledFunctions, claimLog, result, nParses>>

\* The end of readProfile with the lite pass under the option lite alone.
readProfileEnd_LiteAlone ==
  /\ pc = "propagate"
  /\ idx > NumFunctions
  /\ Stats' = [Stats EXCEPT !.NumUnusedProfiledObjects = Stats.NumUnused]
  /\ BF' = IF opts.Lite
           THEN [bf \in BinaryFunctionIds |->
                   IF ~hasProfile(BF[bf]) THEN [BF[bf] EXCEPT !.Ignored = TRUE]
                   ELSE BF[bf]]
           ELSE BF
  /\ pc' = "done"
  /\ result' = "success"
  /\ UNCHANGED <<inputs, tables, normalize, Used, YamlProfileToFunction,
                 ProfiledFunctions, claimLog, parseLog, nParses, idx>>

\* After the loop: BC.setNumUnusedProfiledObjects, the lite pass, the return.
readProfileEnd ==
  /\ pc = "propagate"
  /\ idx > NumFunctions
  /\ Stats' = [Stats EXCEPT !.NumUnusedProfiledObjects = Stats.NumUnused]
  /\ BF' = IF opts.Lite /\ opts.MatchProfileWithFunctionHash
           THEN [bf \in BinaryFunctionIds |->
                   IF ~hasProfile(BF[bf]) THEN [BF[bf] EXCEPT !.Ignored = TRUE]
                   ELSE BF[bf]]
           ELSE BF
  /\ pc' = "done"
  /\ result' = "success"
  /\ UNCHANGED <<inputs, tables, normalize, Used, YamlProfileToFunction,
                 ProfiledFunctions, claimLog, parseLog, nParses, idx>>

(***************************************************************************)
(* The profile documents and options the reader is run on.                 *)
(***************************************************************************)
NameF == MkName(<<>>, <<"f">>, "", "(2)")
NameG1 == MkName(<<>>, <<"g">>, "llvm.1", "")
NameE == MkName(<<>>, <<"e">>, "", "")
NameH == MkName(<<>>, <<"h">>, "", "")

\* f(2) names function f, e names the empty function, g.llvm.1 shares the
\* common name g with two functions, h names no function.
ProfileNames == {NameF, NameG1, NameE, NameH}

MkSuccessor(index, count, mispreds) ==
  [Index |-> index, Count |-> count, Mispreds |-> mispreds]

MkCallSite(dest, disc, offset, count, mispreds) ==
  [DestId |-> dest, EntryDiscriminator |-> disc, Offset |-> offset,
   Count |-> count, Mispreds |-> mispreds]

MkYamlBB(index, exec, events, calls, succs) ==
  [Index |-> index, ExecCount |-> exec, EventCount |-> events,
   CallSites |-> calls, Successors |-> succs]

\* The blocks every record of the matching model carries: block 0 with a
\* call at offset 0 and an edge to block 1.
ReadBlocks ==
  <<MkYamlBB(0, 9, 3, <<MkCallSite(1, 0, 0, 4, 1)>>, <<MkSuccessor(1, 6, 2)>>)>>

RecordShapes ==
  [Name : ProfileNames, Hash : {1, 2}, NumBasicBlocks : {4, 1},
   ExecCount : {7, COUNT_NO_PROFILE}]

MkYamlBF(shape, id, blocks) ==
  [Id |-> id, Name |-> shape.Name, Hash |-> shape.Hash,
   NumBasicBlocks |-> shape.NumBasicBlocks, ExecCount |-> shape.ExecCount,
   Blocks |-> blocks]

\* Ids are distinct; they start at 1, or beyond the size readProfile gives
\* YamlProfileToFunction.
DocumentsFrom(base) ==
  UNION {{[i \in 1..n |-> MkYamlBF(shapes[i], base + i - 1, ReadBlocks)] :
            shapes \in [1..n -> RecordShapes]} :
         n \in 1..MaxFuncs}

OptionSets ==
  [IgnoreHash : BOOLEAN, MatchProfileWithFunctionHash : BOOLEAN,
   InferStaleProfile : BOOLEAN, Lite : BOOLEAN,
   NameSimilarityFunctionMatchingThreshold : {0, 1}, Verbosity : {0}]

DefaultOptions ==
  [IgnoreHash |-> FALSE, MatchProfileWithFunctionHash |-> FALSE,
   InferStaleProfile |-> FALSE, Lite |-> FALSE,
   NameSimilarityFunctionMatchingThreshold |-> 0, Verbosity |-> 0]

MkHeader(version, flags, words, comma, dfs) ==
  [Version |-> version, Flags |-> flags,
   EventNames |-> [words |-> words, comma |-> comma], IsDFSOrder |-> dfs]

\* What the reader and the binary context hold before preprocessProfile.
FreshReader ==
  /\ Used = [i \in 1..NumFunctions |-> FALSE]
  /\ ProfileBFs = <<>>
  /\ ProfileFunctionNames = {}
  /\ LTOCommonNameMap = <<>>
  /\ LTOCommonNameFunctionMap = <<>>
  /\ YamlProfileToFunction = <<>>
  /\ ProfiledFunctions = {}
  /\ NormalizeByInsnCount = FALSE
  /\ NormalizeByCalls = FALSE
  /\ BF = [bf \in BinaryFunctionIds |-> InitialBF(bf)]
  /\ Stats = [MatchedWithExactName |-> 0, MatchedWithHash |-> 0,
              MatchedWithLTOCommonName |-> 0, MatchedWithNameSimilarity |-> 0,
              NumUnused |-> 0, NumUnusedProfiledObjects |-> 0,
              NumStaleFuncsWithEqualBlockCount |-> 0]
  /\ result = "none"
  /\ claimLog = <<>>
  /\ parseLog = <<>>
  /\ nParses = 0
  /\ idx = 0

LBRHeader == MkHeader(1, {"PF_LBR"}, {"cycles"}, FALSE, FALSE)
SampleHeader == MkHeader(1, {"PF_SAMPLE"}, {"cycles"}, FALSE, FALSE)

\* A document that loads, under any options.
InitLoads ==
  /\ loadStatus = "ok"
  /\ \/ /\ Functions \in DocumentsFrom(1)
        /\ opts \in OptionSets
        /\ Header \in {LBRHeader, SampleHeader}
     \/ /\ Functions \in DocumentsFrom(MaxFuncs + 2)
        /\ opts \in {o \in OptionSets : ~o.InferStaleProfile /\ ~o.Lite}
        /\ Header = LBRHeader

\* A file that does not open or parse, or a header preprocessProfile rejects.
InitRejected ==
  /\ Functions \in DocumentsFrom(1)
  /\ opts = DefaultOptions
  /\ \/ /\ loadStatus \in {"open_error", "syntax_error"}
        /\ Header = LBRHeader
     \/ /\ loadStatus = "ok"
        /\ Header \in {MkHeader(2, {"PF_LBR"}, {"cycles"}, FALSE, FALSE),
                       MkHeader(1, {"PF_LBR"}, {"cycles", "branches"}, TRUE, FALSE)}

\* No earlier run: nothing to compare with.
NoRun == [ran |-> FALSE, order |-> <<>>, outcome |-> <<>>]

Init ==
  /\ pc = "start"
  /\ InitLoads \/ InitRejected
  /\ FreshReader
  /\ previous = NoRun

Next ==
  \/ preprocessProfileFails
  \/ preprocessProfile
  \/ readProfileBegin
  \/ ExactStage
  \/ HashStage
  \/ LTOStage
  \/ ResidualStage
  \/ SimilarityStage
  \/ PropagateBody
  \/ readProfileEnd

Spec == Init /\ [][Next]_vars

(***************************************************************************)
(* The propagation model: parseFunctionProfile on one matched pair, the    *)
(* function f and a profile record with any blocks, call sites and         *)
(* successors of the sets below.  The reader is in the state readProfile   *)
(* leaves when it has matched the record to f.                             *)
(***************************************************************************)
\* Block records without call sites and successors: no events, events, and
\* a larger number of events.
QuietBlocks(index) ==
  {MkYamlBB(index, n, n, <<>>, <<>>) : n \in {0, 5, 70}}

\* Block records with successors: one target in range; one in range and
\* one out of range.
BranchBlocks(index) ==
  {MkYamlBB(index, 5, 5, <<>>, <<MkSuccessor(3, 3, 1)>>),
   MkYamlBB(index, 5, 5, <<>>, <<MkSuccessor(1, 6, 2), MkSuccessor(9, 2, 0)>>)}

\* Block records with call sites: two at offset 0; two at offset 4 and one
\* at offset 8.  Callee 1 is f itself, callee 0 is no function, callee 2 is
\* beyond YamlProfileToFunction.
CallBlocks(index) ==
  {MkYamlBB(index, 5, 5,
            <<MkCallSite(1, 0, 0, 4, 1), MkCallSite(0, 0, 0, 6, 0)>>, <<>>),
   MkYamlBB(index, 5, 5,
            <<MkCallSite(1, 1, 4, 2, 1), MkCallSite(2, 0, 4, 3, 0),
              MkCallSite(0, 0, 8, 1, 1)>>, <<>>)}

PropBlocks ==
  UNION {QuietBlocks(index) \cup BranchBlocks(index) \cup CallBlocks(index) :
           index \in {0, 1, 2, 7}}

PropBlockLists == UNION {[1..n -> PropBlocks] : n \in 0..MaxBlocks}

PropHeaders ==
  {MkHeader(1, {"PF_LBR"}, {"cycles"}, FALSE, dfs) : dfs \in BOOLEAN} \cup
  {MkHeader(1, {"PF_SAMPLE"}, words, FALSE, FALSE) :
     words \in {{"cycles"}, {"branches"}, {"instructions", "branches"}, {}}}

InitProp ==
  /\ pc = "parse"
  /\ loadStatus = "ok"
  /\ opts \in {[DefaultOptions EXCEPT !.InferStaleProfile = b] : b \in BOOLEAN}
  /\ Header \in PropHeaders
  /\ \E hash \in {1, 2}, blocks \in PropBlockLists :
       Functions = <<MkYamlBF([Name |-> NameF, Hash |-> hash,
                               NumBasicBlocks |-> 4, ExecCount |-> 7],
                              1, blocks)>>
  /\ Used = <<TRUE>>
  /\ ProfileBFs = <<"F1">>
  /\ ProfileFunctionNames = BuildProfileFunctionNames
  /\ LTOCommonNameMap = BuildLTOCommonNameMap
  /\ LTOCommonNameFunctionMap = BuildLTOCommonNameFunctionMap
  /\ YamlProfileToFunction = <<NullBF, "F1">>
  /\ ProfiledFunctions = {"F1"}
  /\ NormalizeByInsnCount = (usesEvent("cycles") \/ usesEvent("instructions"))
  /\ NormalizeByCalls = usesEvent("branches")
  /\ BF = [bf \in BinaryFunctionIds |->
             IF bf = "F1" THEN computeHash(bf, InitialBF(bf)) ELSE InitialBF(bf)]
  /\ Stats = [MatchedWithExactName |-> IF Functions[1].Hash = 1 THEN 1 ELSE 0,
              MatchedWithHash |-> 0,
              MatchedWithLTOCommonName |-> 0, MatchedWithNameSimilarity |-> 0,
              NumUnused |-> 0, NumUnusedProfiledObjects |-> 0,
              NumStaleFuncsWithEqualBlockCount |-> 0]
  /\ result = "success"
  /\ claimLog = <<[rec |-> 1, bf |-> "F1",
                   stage |-> IF Functions[1].Hash = 1 THEN "exact" ELSE "residual",
                   again |-> FALSE]>>
  /\ parseLog = <<>>
  /\ nParses = 0
  /\ idx = 1
  /\ previous = NoRun

\* An invocation of parseFunctionProfile on the pair.
InvokeParse ==
  /\ pc = "parse"
  /\ nParses < MaxParses
  /\ \E infer \in BOOLEAN :
       LET r == parseFunctionProfile("F1", BF["F1"], Functions[1], infer)
       IN /\ BF' = [BF EXCEPT !["F1"] = r.d]
          /\ parseLog' = Append(parseLog, ParseRecord(1, "F1", r))
          /\ Stats' = [Stats EXCEPT
               !.NumStaleFuncsWithEqualBlockCount = @ + r.Stale]
  /\ nParses' = nParses + 1
  /\ UNCHANGED <<pc, inputs, tables, normalize, Used, YamlProfileToFunction,
                 ProfiledFunctions, claimLog, result, idx>>

NextProp == InvokeParse

SpecProp == InitProp /\ [][NextProp]_vars

(***************************************************************************)
(* The verbosity model: preprocessProfile and readProfile run twice on the *)
(* same document, binary context and options, at two verbosity levels.     *)
(* The unordered containers of the binary context are walked in the same   *)
(* order in both runs.                                                     *)
(***************************************************************************)
\* The values of opts::Verbosity the code distinguishes: 0, >= 1, >= 2.
VerbosityLevels == {0, 1, 2}

\* The warnings a run printed on errs(), by the level that enables them.
\* "dropping duplicate profile" (level 1):
DuplicateWarnings ==
  IF pc \in {"start", "failed"} \/ opts.Verbosity < 1 THEN 0
  ELSE Cardinality({i \in 1..NumFunctions :
                      BuildProfileBFs[i] # NullBF /\ ProfileBFs[i] = NullBF})

\* "profile ignored for function" (level 1):
IgnoredWarnings ==
  IF pc \notin {"propagate", "done"} \/ opts.Verbosity < 1 THEN 0
  ELSE Cardinality({i \in 1..NumFunctions : ~Used[i]})

\* The warnings of parseFunctionProfile invocation k: hash mismatch, number
\* of basic blocks mismatch, duplicate annotation, edge mismatches and the
\* summary (level 1); block index and call-site mismatches (level 2).
ParseWarnings(k) ==
  LET r == parseLog[k]
      YamlBF == Functions[r.rec]
  IN IF r.early THEN 0
     ELSE (IF opts.Verbosity >= 1
           THEN (IF ~opts.IgnoreHash /\ YamlBF.Hash # BinaryFunctions[r.bf].Hash
                 THEN 1 ELSE 0)
                + (IF YamlBF.NumBasicBlocks # BFSize(r.bf) THEN 1 ELSE 0)
                + r.Duplicates + r.MismatchedEdges
                + (IF ~r.ret \/ r.InferCalled THEN 1 ELSE 0)
           ELSE 0)
          + (IF opts.Verbosity >= 2
             THEN r.MismatchedBlocks + r.MismatchedCalls ELSE 0)

RECURSIVE SumParseWarnings(_)
SumParseWarnings(k) ==
  IF k = 0 THEN 0 ELSE SumParseWarnings(k - 1) + ParseWarnings(k)

WarningsPrinted ==
  DuplicateWarnings + IgnoredWarnings + SumParseWarnings(Len(parseLog))

\* What a run ends with: the matching tables, the verdicts and the binary
\* context.
Outcome ==
  [pc |-> pc, result |-> result, ProfileBFs |-> ProfileBFs,
   YamlProfileToFunction |-> YamlProfileToFunction, Used |-> Used,
   ProfiledFunctions |-> ProfiledFunctions,
   Verdicts |-> [k \in 1..Len(parseLog) |->
                   [rec |-> parseLog[k].rec, bf |-> parseLog[k].bf,
                    ret |-> parseLog[k].ret]],
   BF |-> BF, Stats |-> Stats,
   NormalizeByInsnCount |-> NormalizeByInsnCount,
   NormalizeByCalls |-> NormalizeByCalls]

\* The documents of the verbosity model: every document of Ids from 1, read
\* first at verbosity 0, with and without hash matching and ignored hashes;
\* and a document preprocessProfile rejects.
InitVerb ==
  /\ pc = "start"
  /\ \/ /\ loadStatus = "ok"
        /\ Functions \in DocumentsFrom(1)
        /\ Header = LBRHeader
        /\ opts \in {o \in OptionSets :
                       /\ ~o.InferStaleProfile /\ o.Lite
                       /\ o.NameSimilarityFunctionMatchingThreshold = 1}
     \/ /\ loadStatus = "ok"
        /\ Functions \in DocumentsFrom(1)
        /\ Header = MkHeader(2, {"PF_LBR"}, {"cycles"}, FALSE, FALSE)
        /\ opts = DefaultOptions
        /\ Len(Functions) = 1
  /\ FreshReader
  /\ previous = NoRun

\* S4 as LTOStage, walking LTOCommonNameMap and the buckets of
\* LTOCommonNameFunctionMap in the order of the earlier run, if there was one.
LTOStageSameOrder ==
  /\ pc = "lto"
  /\ \E keys \in Orders(DOMAIN LTOCommonNameMap) :
       \E forder \in [DOMAIN LTOCommonNameFunctionMap ->
                        UNION {Orders(LTOCommonNameFunctionMap[c]) :
                                 c \in DOMAIN LTOCommonNameFunctionMap}] :
         /\ \A c \in DOMAIN forder :
              forder[c] \in Orders(LTOCommonNameFunctionMap[c])
         /\ previous.ran => previous.order = <<keys, forder>>
         /\ SetMatcher(LTOLoop(Matcher, keys, forder))
         /\ previous' = [previous EXCEPT !.order = <<keys, forder>>]
  /\ pc' = "residual"
  /\ UNCHANGED <<given, tables, normalize, BF, result, parseLog, nParses, idx>>

\* The run is over: the reader is run again on the same document, binary
\* context and options, at another verbosity level.
RunAgain ==
  /\ pc \in {"done", "failed"}
  /\ ~previous.ran
  /\ \E v \in VerbosityLevels \ {opts.Verbosity} :
       opts' = [opts EXCEPT !.Verbosity = v]
  /\ UNCHANGED <<loadStatus, Header, Functions>>
  /\ previous' = [previous EXCEPT !.ran = TRUE, !.outcome = Outcome]
  /\ pc' = "start"
  /\ Used' = [i \in 1..NumFunctions |-> FALSE]
  /\ ProfileBFs' = <<>>
  /\ ProfileFunctionNames' = {}
  /\ LTOCommonNameMap' = <<>>
  /\ LTOCommonNameFunctionMap' = <<>>
  /\ YamlProfileToFunction' = <<>>
  /\ ProfiledFunctions' = {}
  /\ NormalizeByInsnCount' = FALSE
  /\ NormalizeByCalls' = FALSE
  /\ BF' = [bf \in BinaryFunctionIds |-> InitialBF(bf)]
  /\ Stats' = [s \in DOMAIN Stats |-> 0]
  /\ result' = "none"
  /\ claimLog' = <<>>
  /\ parseLog' = <<>>
  /\ nParses' = 0
  /\ idx' = 0

NextVerb ==
  \/ preprocessProfileFails
  \/ preprocessProfile
  \/ readProfileBegin
  \/ ExactStage
  \/ HashStage
  \/ LTOStageSameOrder
  \/ ResidualStage
  \/ SimilarityStage
  \/ PropagateBody
  \/ readProfileEnd
  \/ RunAgain

SpecVerb == InitVerb /\ [][NextVerb]_vars

(***************************************************************************)
(* The LTO model: the reader on documents whose records carry LTO names.   *)
(* The common name g has a bucket of two functions, the common name k a    *)
(* bucket of one, the function f through its second symbol.                *)
(***************************************************************************)
NameK == MkName(<<>>, <<"k">>, "llvm.5", "")

\* n::f names no function: f is in the global namespace.
NameNF == MkName(<<"n">>, <<"f">>, "", "")

LTORecordShapes ==
  [Name : {NameF, NameG1, NameK, NameNF}, Hash : {1, 2}, NumBasicBlocks : {4, 1},
   ExecCount : {7}]

LTODocuments ==
  UNION {{[i \in 1..n |-> MkYamlBF(shapes[i], i, ReadBlocks)] :
            shapes \in [1..n -> LTORecordShapes]} :
         n \in 1..MaxFuncs}

\* The options of the LTO model: those of OptionSets, and a larger
\* name-similarity threshold.
LTOOptionSets ==
  OptionSets \cup
    {[o EXCEPT !.NameSimilarityFunctionMatchingThreshold = 3] : o \in OptionSets}

InitLTO ==
  /\ pc = "start"
  /\ loadStatus = "ok"
  /\ Functions \in LTODocuments
  /\ \/ /\ Header = LBRHeader
        /\ opts \in LTOOptionSets
     \/ /\ Header = MkHeader(2, {"PF_LBR"}, {"cycles"}, FALSE, FALSE)
        /\ opts = DefaultOptions
        /\ Len(Functions) = 1
  /\ FreshReader
  /\ previous = NoRun

SpecLTO == InitLTO /\ [][Next]_vars

(***************************************************************************)
(* Properties of parseFunctionProfile, checked under SpecProp.             *)
(***************************************************************************)
YamlBlocks == Functions[1].Blocks
F1Order == IF Header.IsDFSOrder THEN <<0, 2, 3, 1>> ELSE <<0, 1, 2, 3>>
IndexInRange(k) == k < 4
BlockIds == 0..3
SuccessorsOf(b) == F1Blocks[b + 1].Successors
HasEdge(a, b) == \E k \in 1..Len(SuccessorsOf(a)) : SuccessorsOf(a)[k] = b
EdgeInfo(a, b) ==
  BF["F1"].Branch[a + 1][CHOOSE k \in 1..Len(SuccessorsOf(a)) : SuccessorsOf(a)[k] = b]

\* The successor entries of the profile record: <<i, j>> is entry j of block
\* record i.
SuccessorEntries ==
  UNION {{<<i, j>> : j \in 1..Len(YamlBlocks[i].Successors)} :
           i \in 1..Len(YamlBlocks)}
EntryOf(p) == YamlBlocks[p[1]].Successors[p[2]]
SourceInRange(p) == IndexInRange(YamlBlocks[p[1]].Index)
TargetInRange(p) == IndexInRange(EntryOf(p).Index)
SourceOf(p) == F1Order[YamlBlocks[p[1]].Index + 1]
TargetOf(p) == F1Order[EntryOf(p).Index + 1]
\* The false-branch successor of the entry's source block.
FallThroughOf(p) == SuccessorsOf(SourceOf(p))[2]
\* The source has the false-branch successor FT, whose only successor is
\* the target.
FallThroughLeadsToTarget(p) ==
  /\ SourceInRange(p) /\ TargetInRange(p)
  /\ Len(SuccessorsOf(SourceOf(p))) = 2
  /\ SuccessorsOf(FallThroughOf(p)) = <<TargetOf(p)>>
IsDirectEntry(p) ==
  SourceInRange(p) /\ TargetInRange(p) /\ HasEdge(SourceOf(p), TargetOf(p))
IsPassThroughEntry(p) == FallThroughLeadsToTarget(p) /\ ~IsDirectEntry(p)

\* How many times entry p adds its counts to the edge a -> b.
TimesAdded(p, a, b) ==
  (IF IsDirectEntry(p) /\ SourceOf(p) = a /\ TargetOf(p) = b THEN 1 ELSE 0)
  + (IF IsPassThroughEntry(p) /\ FallThroughOf(p) = a /\ TargetOf(p) = b
     THEN 1 ELSE 0)
  + (IF IsPassThroughEntry(p) /\ SourceOf(p) = a /\ FallThroughOf(p) = b
     THEN 1 ELSE 0)

RECURSIVE ExpectedEdge(_, _, _)
ExpectedEdge(entries, a, b) ==
  IF entries = {} THEN [Count |-> 0, MispredictedCount |-> 0]
  ELSE LET p == CHOOSE x \in entries : TRUE
           rest == ExpectedEdge(entries \ {p}, a, b)
       IN [Count |-> (rest.Count + TimesAdded(p, a, b) * EntryOf(p).Count) % Mod,
           MispredictedCount |->
             (rest.MispredictedCount + TimesAdded(p, a, b) * EntryOf(p).Mispreds) % Mod]

AfterFirstLBRParse == pc = "parse" /\ nParses = 1 /\ ~IsSample

\* C4 (as amended): in LBR mode, a successor entry of the profile block for
\* BB that targets ToBB, where BB has no direct successor ToBB, BB's
\* false-branch successor is FT and FT's only successor is ToBB, adds its
\* counts (c, m) to the edge FT -> ToBB (and to BB -> FT) and is not counted
\* in MismatchedEdges: after the first parseFunctionProfile every edge
\* carries exactly the sum of the direct and pass-through entries that reach
\* it, and MismatchedEdges counts the in-range blocks' entries that are
\* neither.
C4_PassThrough ==
  AfterFirstLBRParse =>
    /\ \A a, b \in BlockIds :
         HasEdge(a, b) => EdgeInfo(a, b) = ExpectedEdge(SuccessorEntries, a, b)
    /\ parseLog[1].MismatchedEdges =
         Cardinality({p \in SuccessorEntries :
                        /\ SourceInRange(p)
                        /\ ~IsDirectEntry(p)
                        /\ ~IsPassThroughEntry(p)})

\* C4 witness: a pass-through entry was propagated.
C4_Witness ==
  /\ AfterFirstLBRParse
  /\ \E p \in SuccessorEntries :
       /\ IsPassThroughEntry(p)
       /\ EdgeInfo(FallThroughOf(p), TargetOf(p)).Count = EntryOf(p).Count
  /\ parseLog[1].MismatchedEdges = 0

\* C4 as claimed, on a record with a single successor entry: whenever BB's
\* false-branch successor FT has the only successor ToBB, the entry's
\* counts are on FT -> ToBB and no edge mismatch is counted.
C4_Original ==
  AfterFirstLBRParse =>
    \A p \in SuccessorEntries :
      (SuccessorEntries = {p} /\ FallThroughLeadsToTarget(p)) =>
        /\ EdgeInfo(FallThroughOf(p), TargetOf(p)) =
             [Count |-> EntryOf(p).Count, MispredictedCount |-> EntryOf(p).Mispreds]
        /\ parseLog[1].MismatchedEdges = 0

SecondParse == pc = "parse" /\ nParses = 1 /\ nParses' = 2

ScalarNames == {"Count", "CTCTakenCount", "CTCMispredCount"}
ScalarsSet(d) ==
  {<<a, n>> \in (DOMAIN d.Annot) \X ScalarNames : d.Annot[a][n] # <<>>}

\* C5 (as amended): a second parseFunctionProfile on the same pair leaves
\* every scalar annotation ("Count", "CTCTakenCount", "CTCMispredCount")
\* with the value it had, and every write of one that the first invocation
\* made or dropped takes the duplicate path; the "CallProfile" lists are not
\* kept: the second invocation appends the same entries again.
C5_IdempotentScalars ==
  [][SecondParse =>
       /\ \A a \in DOMAIN F1Instrs : \A n \in ScalarNames :
            BF'["F1"].Annot[a][n] = BF["F1"].Annot[a][n]
       /\ parseLog'[2].Duplicates =
            parseLog[1].Duplicates + Cardinality(ScalarsSet(BF["F1"]))
       /\ \A a \in DOMAIN F1Instrs :
            BF'["F1"].Annot[a].CallProfile =
              BF["F1"].Annot[a].CallProfile \o BF["F1"].Annot[a].CallProfile]_vars

\* C5 witness: the second invocation ran over scalar annotations and took
\* the duplicate path.
C5_Witness ==
  /\ pc = "parse" /\ nParses = 2
  /\ ScalarsSet(BF["F1"]) # {}
  /\ parseLog[2].Duplicates > parseLog[1].Duplicates

\* C5 as claimed: the second invocation leaves every annotation, the
\* "CallProfile" list included, as the first left it.
C5_Original ==
  [][SecondParse => BF'["F1"].Annot = BF["F1"].Annot]_vars

\* C6: when the header flag SAMPLE is set, an invocation of
\* parseFunctionProfile writes no instruction annotation, leaves the counts
\* of every edge as they were and appends nothing to the call-site list.
C6_SampleFrame ==
  [][(pc = "parse" /\ IsSample /\ nParses' = nParses + 1) =>
       /\ BF'["F1"].Annot = BF["F1"].Annot
       /\ BF'["F1"].Branch = BF["F1"].Branch
       /\ BF'["F1"].AllCallSites = BF["F1"].AllCallSites]_vars

\* C6 witness: a sample-mode invocation on a record with call sites and one
\* with successors, both on blocks in range.
C6_Witness ==
  /\ pc = "parse" /\ IsSample /\ nParses = 1
  /\ \E i \in 1..Len(YamlBlocks) :
       IndexInRange(YamlBlocks[i].Index) /\ YamlBlocks[i].CallSites # <<>>
  /\ \E i \in 1..Len(YamlBlocks) :
       IndexInRange(YamlBlocks[i].Index) /\ YamlBlocks[i].Successors # <<>>

\* The count the claim gives a block record Y on the block b.
ExpectedSamples(Y, b) ==
  IF Y.EventCount = 0 THEN 0
  ELSE IF ("cycles" \in Header.EventNames.words
           \/ "instructions" \in Header.EventNames.words)
          /\ F1Blocks[b + 1].NumNonPseudos > 0
    THEN ((Y.EventCount * 1000) % Mod) \div F1Blocks[b + 1].NumNonPseudos
  ELSE IF "branches" \in Header.EventNames.words
    THEN ((Y.EventCount * 1000) % Mod) \div (F1Blocks[b + 1].NumCalls + 1)
  ELSE (Y.EventCount * 1000) % Mod

\* The block records of the profile whose index is in range and names b.
RecordsOf(b) ==
  {i \in 1..Len(YamlBlocks) :
     IndexInRange(YamlBlocks[i].Index) /\ F1Order[YamlBlocks[i].Index + 1] = b}

RECURSIVE ExpectedEntrySum(_)
ExpectedEntrySum(i) ==
  IF i = 0 THEN 0
  ELSE LET Y == YamlBlocks[i]
       IN (ExpectedEntrySum(i - 1) +
           (IF IndexInRange(Y.Index) /\ F1Blocks[F1Order[Y.Index + 1] + 1].isEntryPoint
            THEN ExpectedSamples(Y, F1Order[Y.Index + 1]) ELSE 0)) % Mod

CallSiteEntries ==
  IF IsSample THEN {}
  ELSE UNION {{<<i, j>> : j \in 1..Len(YamlBlocks[i].CallSites)} :
                i \in {k \in 1..Len(YamlBlocks) : IndexInRange(YamlBlocks[k].Index)}}
CallSiteOf(p) == YamlBlocks[p[1]].CallSites[p[2]]
BlockOfEntry(p) == F1Blocks[F1Order[YamlBlocks[p[1]].Index + 1] + 1]
AddressOf(p) == BlockOfEntry(p).InputOffset + CallSiteOf(p).Offset
EntryBefore(p, q) == p[1] < q[1] \/ (p[1] = q[1] /\ p[2] < q[2])

\* Entry p targets the instruction at address a, and that instruction takes
\* the scalar annotation n.
TakesScalar(a, n) ==
  /\ F1Instrs[a].isCall
  /\ ~F1Instrs[a].isIndirectCall /\ ~F1Instrs[a].isIndirectBranch
  /\ F1Instrs[a].ConditionalTailCall <=> n # "Count"
TargetsScalar(p, a, n) ==
  /\ CallSiteOf(p).Offset < BlockOfEntry(p).OriginalSize
  /\ AddressOf(p) = a
  /\ TakesScalar(a, n)
ScalarOf(p, n) ==
  IF n = "CTCMispredCount" THEN CallSiteOf(p).Mispreds ELSE CallSiteOf(p).Count
ScalarEntries(a, n) == {p \in CallSiteEntries : TargetsScalar(p, a, n)}
FirstEntry(W) == CHOOSE p \in W : \A q \in W \ {p} : EntryBefore(p, q)

\* C17: an invocation of parseFunctionProfile leaves every scalar annotation
\* that is set with the value it has, and sets one that is not set to the
\* value of the first call-site entry, in profile order, that targets the
\* instruction; the entries after it do not change the value.
C17_FirstWriteWins ==
  [][(pc = "parse" /\ nParses' = nParses + 1) =>
       \A a \in DOMAIN F1Instrs : \A n \in ScalarNames :
         BF'["F1"].Annot[a][n] =
           IF BF["F1"].Annot[a][n] # <<>> THEN BF["F1"].Annot[a][n]
           ELSE IF ScalarEntries(a, n) = {} THEN <<>>
           ELSE <<ScalarOf(FirstEntry(ScalarEntries(a, n)), n)>>]_vars

\* C17 witness: after a second invocation, an annotation holds the value of
\* an entry although a later entry of the record targets the same
\* instruction with another value.
C17_Witness ==
  /\ pc = "parse" /\ nParses = 2
  /\ \E a \in DOMAIN F1Instrs : \E n \in ScalarNames :
       \E p, q \in ScalarEntries(a, n) :
         /\ EntryBefore(p, q)
         /\ ScalarOf(p, n) # ScalarOf(q, n)
         /\ BF["F1"].Annot[a][n] = <<ScalarOf(p, n)>>
  /\ parseLog[1].Duplicates > 0
  /\ parseLog[2].Duplicates > parseLog[1].Duplicates

\* The call-site entries that fail a check: the offset is out of the
\* block's bounds, there is no instruction at the offset, or the
\* instruction is neither a call nor an indirect branch.
OutOfBounds(p) == CallSiteOf(p).Offset >= BlockOfEntry(p).OriginalSize
NoInstruction(p) == ~OutOfBounds(p) /\ AddressOf(p) \notin DOMAIN F1Instrs
NotACall(p) ==
  /\ ~OutOfBounds(p) /\ AddressOf(p) \in DOMAIN F1Instrs
  /\ ~F1Instrs[AddressOf(p)].isCall
  /\ ~F1Instrs[AddressOf(p)].isIndirectBranch
FailedEntry(p) == OutOfBounds(p) \/ NoInstruction(p) \/ NotACall(p)

\* What the block records, in profile order, add to the call-site list.
ListEntry(YamlCSI) ==
  [Symbol |-> CalleeSymbolOf(YamlCSI), Count |-> YamlCSI.Count,
   Mispreds |-> YamlCSI.Mispreds, Offset |-> YamlCSI.Offset]
RECURSIVE ExpectedCallSites(_)
ExpectedCallSites(blocks) ==
  IF blocks = <<>> THEN <<>>
  ELSE (IF IndexInRange(Head(blocks).Index)
        THEN [k \in 1..Len(Head(blocks).CallSites) |->
                ListEntry(Head(blocks).CallSites[k])]
        ELSE <<>>) \o ExpectedCallSites(Tail(blocks))

\* C20: in LBR mode an invocation of parseFunctionProfile appends to the
\* function's call-site list one entry for every call-site entry of every
\* block record whose Index is in range, in profile order, the failed ones
\* included; MismatchedCalls is the number of failed entries, and the
\* annotations of an instruction that no entry passing the checks targets
\* are left as they were.
C20_CallSiteList ==
  [][(pc = "parse" /\ ~IsSample /\ nParses' = nParses + 1) =>
       /\ BF'["F1"].AllCallSites =
            BF["F1"].AllCallSites \o ExpectedCallSites(YamlBlocks)
       /\ parseLog'[nParses'].MismatchedCalls =
            Cardinality({p \in CallSiteEntries : FailedEntry(p)})
       /\ \A a \in DOMAIN F1Instrs :
            (\A p \in CallSiteEntries : FailedEntry(p) \/ AddressOf(p) # a)
              => BF'["F1"].Annot[a] = BF["F1"].Annot[a]]_vars

\* C20 witness: an invocation on a record whose call-site entries fail in
\* each of the three ways, and only fail: all of them are in the list, all
\* are counted and no instruction is annotated.
C20_Witness ==
  /\ pc = "parse" /\ nParses = 1 /\ ~IsSample
  /\ \E p, q, r \in CallSiteEntries :
       OutOfBounds(p) /\ NoInstruction(q) /\ NotACall(r)
  /\ \A p \in CallSiteEntries : FailedEntry(p)
  /\ Len(BF["F1"].AllCallSites) = Cardinality(CallSiteEntries)
  /\ parseLog[1].MismatchedCalls = Cardinality(CallSiteEntries)
  /\ \A a \in DOMAIN F1Instrs : BF["F1"].Annot[a] = NoAnnotations

(***************************************************************************)
(* Properties of preprocessProfile and readProfile, checked under Spec.    *)
(***************************************************************************)
Records == 1..NumFunctions

\* The binary function record i is bound to in YamlProfileToFunction.
TargetOfRecord(i) ==
  IF Functions[i].Id < Len(YamlProfileToFunction)
  THEN YamlProfileToFunction[Functions[i].Id + 1]
  ELSE NullBF

AfterPreprocess == pc \notin {"start", "failed", "parse"}
AfterExactStage == AfterPreprocess /\ pc \notin {"preprocessed", "exact"}

\* The function the cleaned name of record i resolves to.
NamedFunction(i) ==
  IF \E bf \in BinaryFunctionIds :
       [Functions[i].Name EXCEPT !.tag = ""] \in BinaryFunctions[bf].Names
  THEN CHOOSE bf \in BinaryFunctionIds :
         [Functions[i].Name EXCEPT !.tag = ""] \in BinaryFunctions[bf].Names
  ELSE NullBF

ClaimedInExactStage(i, bf) ==
  \E k \in 1..Len(claimLog) :
    claimLog[k].rec = i /\ claimLog[k].bf = bf /\ claimLog[k].stage = "exact"

\* C1: no binary function is the target in YamlProfileToFunction of two
\* distinct profile records, and matchProfileToFunction is never invoked on
\* a binary function that is already in ProfiledFunctions.
C1_Uniqueness ==
  /\ \A k \in 1..Len(claimLog) : ~claimLog[k].again
  /\ \A i, j \in Records :
       (TargetOfRecord(i) # NullBF /\ TargetOfRecord(i) = TargetOfRecord(j))
         => i = j

\* C2: in every state of the reader, for every profile record, Used is true
\* if and only if the record's Id slot of YamlProfileToFunction is non-null.
C2_UsedIffBound ==
  \A i \in Records : Used[i] <=> TargetOfRecord(i) # NullBF

\* C2 witness: the propagation loop starts with a used and an unused
\* record, the used one with an Id beyond the initial size of the vector.
C2_Witness ==
  /\ pc = "propagate" /\ idx = 1
  /\ \E i, j \in Records :
       /\ Used[i] /\ Functions[i].Id > NumFunctions
       /\ ~Used[j]

\* C3 (as amended): a profile record whose slot of ProfileBFs is non-null
\* after preprocessProfile (the name resolves and the record was not dropped
\* as a duplicate) and whose hash equals the function's, with
\* profile-ignore-hash off, is claimed in the exact stage, counted in
\* MatchedWithExactName and bound to the name-resolved function, also when
\* match-profile-with-function-hash is enabled and the hash map of the hash
\* stage maps the same hash to another function.
ExactMatches ==
  {i \in Records :
     /\ ProfileBFs[i] # NullBF
     /\ Functions[i].Hash = BinaryFunctions[ProfileBFs[i]].Hash}

C3_ExactStageFirst ==
  (AfterExactStage /\ ~opts.IgnoreHash) =>
    /\ \A i \in ExactMatches :
         /\ ClaimedInExactStage(i, ProfileBFs[i])
         /\ TargetOfRecord(i) = ProfileBFs[i]
    /\ Stats.MatchedWithExactName = Cardinality(ExactMatches)

\* C3 witness: the hash stage is enabled and maps the hash of a record to
\* another function than the one the exact stage bound the record to.
C3_Witness ==
  /\ pc = "lto"
  /\ opts.MatchProfileWithFunctionHash /\ ~opts.IgnoreHash
  /\ \E i \in ExactMatches :
       /\ ClaimedInExactStage(i, "F1")
       /\ StrictHashToBF[Functions[i].Hash] = "F3"

\* C3 as claimed: every record whose cleaned name resolves to a function
\* with the record's hash is claimed in the exact stage and bound to it.
C3_Original ==
  AfterExactStage =>
    \A i \in Records :
      (NamedFunction(i) # NullBF
       /\ Functions[i].Hash = BinaryFunctions[NamedFunction(i)].Hash)
        => /\ ClaimedInExactStage(i, NamedFunction(i))
           /\ TargetOfRecord(i) = NamedFunction(i)

\* C8: after readProfile returned, the binary function of every claimed
\* profile record has a profile (hasProfile).
C8_ClaimedHasProfile ==
  pc = "done" =>
    \A k \in 1..Len(claimLog) : hasProfile(BF[claimLog[k].bf])

\* The header or the file makes preprocessProfile fail.
FatalInput ==
  \/ loadStatus # "ok"
  \/ Header.Version # 1
  \/ Header.EventNames.comma

\* C9: when the file cannot be opened, the document has a syntax error, the
\* header version is not 1 or the event names contain a comma,
\* preprocessProfile returns an error, no binary function has been modified
\* and no name map has been built.
C9_FatalLeavesContext ==
  (FatalInput /\ pc # "start") =>
    /\ pc = "failed"
    /\ result \in {"cannot open", "syntax error", "unsupported version",
                   "multiple events"}
    /\ BF = [bf \in BinaryFunctionIds |-> InitialBF(bf)]
    /\ ProfileBFs = <<>>
    /\ ProfileFunctionNames = {}
    /\ LTOCommonNameMap = <<>>
    /\ LTOCommonNameFunctionMap = <<>>

\* C9 witness: preprocessProfile failed on a header of version 2.
C9_Witness ==
  /\ pc = "failed"
  /\ Header.Version = 2
  /\ result = "unsupported version"

\* C10 (as amended): readProfile marks ignored, after the propagation loop,
\* every binary function without a profile when the options lite and
\* match-profile-with-function-hash are both enabled; otherwise, and before
\* the end of readProfile, no function is marked ignored.
C10_LiteIgnores ==
  \A bf \in BinaryFunctionIds :
    BF[bf].Ignored <=>
      /\ pc = "done"
      /\ opts.Lite /\ opts.MatchProfileWithFunctionHash
      /\ ~hasProfile(BF[bf])

\* C10 witness: lite with match-profile-with-function-hash and without
\* infer-stale-profile: a function is ignored and a profiled one is not.
C10_Witness ==
  /\ pc = "done"
  /\ opts.Lite /\ opts.MatchProfileWithFunctionHash /\ ~opts.InferStaleProfile
  /\ \E bf \in BinaryFunctionIds : BF[bf].Ignored
  /\ \E bf \in BinaryFunctionIds : hasProfile(BF[bf]) /\ ~BF[bf].Ignored

\* C10 as claimed: the functions marked ignored are those without a profile
\* when lite and infer-stale-profile are both enabled.
C10_Original ==
  pc = "done" =>
    \A bf \in BinaryFunctionIds :
      BF[bf].Ignored <=>
        (opts.Lite /\ opts.InferStaleProfile /\ ~hasProfile(BF[bf]))

(***************************************************************************)
(* Properties of two runs at different verbosity levels, checked under     *)
(* SpecVerb.                                                               *)
(***************************************************************************)
SecondRunOver == previous.ran /\ pc \in {"done", "failed"}

\* C11: two runs of preprocessProfile and readProfile on the same profile
\* document, binary context and options that differ only in the verbosity
\* level end with identical ProfileBFs, YamlProfileToFunction, Used flags,
\* ProfiledFunctions, verdicts, counts and annotations.
C11_VerbosityNonInterference ==
  SecondRunOver => Outcome = previous.outcome

\* C11 witness: the second run, at a higher verbosity level, printed
\* warnings about a dropped duplicate and about mismatches, and a function
\* got a profile.
C11_Witness ==
  /\ SecondRunOver /\ pc = "done"
  /\ opts.Verbosity = 2
  /\ DuplicateWarnings > 0
  /\ SumParseWarnings(Len(parseLog)) > 0
  /\ \E bf \in BinaryFunctionIds : BF[bf].Profiled

(***************************************************************************)
(* Properties of every invocation of parseFunctionProfile, in readProfile  *)
(* (Spec) and on the pair of the propagation model (SpecProp).             *)
(***************************************************************************)
\* The step is an invocation of parseFunctionProfile; Invocation is its
\* entry in the history, InvokedOn the function and InvokedWith the record.
Invoked == Len(parseLog') = Len(parseLog) + 1
Invocation == parseLog'[Len(parseLog')]
InvokedOn == Invocation.bf
InvokedWith == Functions[Invocation.rec]

\* The sum of Count over the successor entries E (pairs of block record and
\* entry) of the record YamlBF, in unsigned word arithmetic.
RECURSIVE SumOfCounts(_, _)
SumOfCounts(YamlBF, E) ==
  IF E = {} THEN 0
  ELSE LET p == CHOOSE x \in E : TRUE
       IN (YamlBF.Blocks[p[1]].Successors[p[2]].Count
           + SumOfCounts(YamlBF, E \ {p})) % Mod

AllSuccessorEntries(YamlBF) ==
  UNION {{<<i, j>> : j \in 1..Len(YamlBF.Blocks[i].Successors)} :
           i \in 1..Len(YamlBF.Blocks)}

\* C12: after every invocation of parseFunctionProfile (empty or non-empty
\* function, LBR or sample mode, any mismatch) the function's RawBranchCount
\* is the sum of Count over all successor entries of all blocks of the
\* profile record.
C12_RawBranchSum ==
  [][Invoked =>
       BF'[InvokedOn].RawBranchCount =
         SumOfCounts(InvokedWith, AllSuccessorEntries(InvokedWith))]_vars

\* C12 witness: readProfile has propagated a record onto the empty function
\* and a record with an out-of-range successor onto a one-block function,
\* and both have the record's sum as raw branch count.
C12_Witness ==
  /\ pc = "done"
  /\ \E k \in 1..Len(parseLog) :
       parseLog[k].bf = "F4" /\ parseLog[k].early
  /\ \E k \in 1..Len(parseLog) :
       parseLog[k].bf = "F2" /\ parseLog[k].MismatchedEdges > 0
  /\ BF["F4"].RawBranchCount = 6
  /\ BF["F2"].RawBranchCount = 6

(***************************************************************************)
(* Properties of the matching stages of readProfile, checked under Spec.   *)
(***************************************************************************)
\* Record i was claimed in the given stage, for the function bf.
ClaimedInStage(i, bf, stage) ==
  \E k \in 1..Len(claimLog) :
    claimLog[k].rec = i /\ claimLog[k].bf = bf /\ claimLog[k].stage = stage

\* The function bf was claimed in the exact stage, or in the hash stage by
\* a record before record i.
ClaimedBeforeHashTurn(bf, i) ==
  \E k \in 1..Len(claimLog) :
    /\ claimLog[k].bf = bf
    /\ \/ claimLog[k].stage = "exact"
       \/ claimLog[k].stage = "hash" /\ claimLog[k].rec < i

\* The binary functions whose hash is h, and the last of them in the order
\* of BC.getBinaryFunctions().
FunctionsOfHash(h) == {bf \in BinaryFunctionIds : BinaryFunctions[bf].Hash = h}
LastOfHash(h) ==
  AllBinaryFunctions[CHOOSE k \in 1..Len(AllBinaryFunctions) :
                       /\ AllBinaryFunctions[k] \in FunctionsOfHash(h)
                       /\ \A j \in (k + 1)..Len(AllBinaryFunctions) :
                            AllBinaryFunctions[j] \notin FunctionsOfHash(h)]

\* The records whose cleaned name resolves to no binary function.
Unresolved == {i \in Records : NamedFunction(i) = NullBF}

Propagated(i, bf) ==
  \E k \in 1..Len(parseLog) : parseLog[k].rec = i /\ parseLog[k].bf = bf

ClaimedBeforeResidual(i) ==
  \E k \in 1..Len(claimLog) :
    claimLog[k].rec = i /\ claimLog[k].stage \in {"exact", "hash", "lto"}

\* The function bf was claimed in a stage before S5, or in S5 by a record
\* before record i.
ClaimedBeforeResidualTurn(bf, i) ==
  \E k \in 1..Len(claimLog) :
    /\ claimLog[k].bf = bf
    /\ \/ claimLog[k].stage \in {"exact", "hash", "lto"}
       \/ claimLog[k].stage = "residual" /\ claimLog[k].rec < i

\* C14: immediately after S5, for every record whose slot of ProfileBFs is
\* non-null, the record is used or the function of the slot is in
\* ProfiledFunctions; S5 binds every unused record to the unclaimed function
\* of its slot whatever the hashes and block counts are, and never binds a
\* function that is already in ProfiledFunctions.
C14_ResidualComplete ==
  pc = "similarity" =>
    /\ \A i \in Records :
         ProfileBFs[i] # NullBF =>
           /\ Used[i] \/ ProfileBFs[i] \in ProfiledFunctions
           /\ ClaimedInStage(i, ProfileBFs[i], "residual") <=>
                /\ ~ClaimedBeforeResidual(i)
                /\ ~ClaimedBeforeResidualTurn(ProfileBFs[i], i)
    /\ \A k \in 1..Len(claimLog) :
         claimLog[k].stage = "residual" =>
           /\ ~claimLog[k].again
           /\ claimLog[k].bf = ProfileBFs[claimLog[k].rec]

\* C14 witness: S5 has bound a record to the function of its slot although
\* hash and block count differ, and has left a later record of the same
\* function unbound because the function was then in ProfiledFunctions.
C14_Witness ==
  /\ pc = "similarity"
  /\ \E i, j \in Records :
       /\ i < j
       /\ ProfileBFs[i] # NullBF /\ ProfileBFs[j] = ProfileBFs[i]
       /\ ClaimedInStage(i, ProfileBFs[i], "residual")
       /\ Functions[i].Hash # BinaryFunctions[ProfileBFs[i]].Hash
       /\ Functions[i].NumBasicBlocks # BFSize(ProfileBFs[i])
       /\ ~Used[j]
       /\ ProfileBFs[j] \in ProfiledFunctions

\* Record i is the first record in source order whose cleaned name resolves
\* to its binary function.
FirstOfFunction(i) ==
  /\ BuildProfileBFs[i] # NullBF
  /\ \A j \in 1..(i - 1) : BuildProfileBFs[j] # BuildProfileBFs[i]

\* C15: after preprocessProfile the slot of ProfileBFs of the first record
\* of a binary function holds the function and the slot of every later
\* record of the function is null, so the non-null slots are pairwise
\* distinct, and when preprocessProfile returns the provisional
\* ExecutionCount of the function is the ExecCount of its first record.
C15_DuplicateDropped ==
  AfterPreprocess =>
    /\ \A i \in Records :
         ProfileBFs[i] = IF FirstOfFunction(i) THEN BuildProfileBFs[i]
                         ELSE NullBF
    /\ \A i, j \in Records :
         (ProfileBFs[i] # NullBF /\ ProfileBFs[i] = ProfileBFs[j]) => i = j
    /\ pc = "preprocessed" =>
         \A i \in Records :
           FirstOfFunction(i) =>
             BF[BuildProfileBFs[i]].ExecutionCount = Functions[i].ExecCount

(***************************************************************************)
(* Properties of the LTO stage, checked under SpecLTO.                     *)
(***************************************************************************)
AfterLTOStage == AfterExactStage /\ pc \notin {"hash", "lto"}

\* The common name of record i, <<>> if its name has no LTO suffix.
CommonNameOf(i) == getLTOCommonName(CleanName(Functions[i].Name))

\* Record i is alone in the profile bucket of its common name, and the
\* function bf is alone in the binary bucket of that name.
SingletonPair(i, bf) ==
  /\ CommonNameOf(i) # <<>>
  /\ LTOCommonNameMap[CommonNameOf(i)[1]] = <<i>>
  /\ CommonNameOf(i)[1] \in DOMAIN LTOCommonNameFunctionMap
  /\ LTOCommonNameFunctionMap[CommonNameOf(i)[1]] = {bf}

\* Record i, or the function bf, was claimed in a stage before S4.
ClaimedBeforeLTO(i, bf) ==
  \E k \in 1..Len(claimLog) :
    /\ claimLog[k].stage \in {"exact", "hash"}
    /\ claimLog[k].rec = i \/ claimLog[k].bf = bf

\* C16: in S4 a record that is alone in the profile bucket of its common
\* name is bound to the function that is alone in the binary bucket of that
\* name when neither was claimed before, also when profileMatches fails;
\* a pair for which profileMatches fails is bound in S4 only if both buckets
\* hold exactly one element and neither side was claimed before.
C16_SingletonFallback ==
  AfterLTOStage =>
    /\ \A i \in Records : \A bf \in BinaryFunctionIds :
         (SingletonPair(i, bf) /\ ~ClaimedBeforeLTO(i, bf))
           => ClaimedInStage(i, bf, "lto")
    /\ \A k \in 1..Len(claimLog) :
         (claimLog[k].stage = "lto"
          /\ ~profileMatches(claimLog[k].rec, claimLog[k].bf))
           => /\ SingletonPair(claimLog[k].rec, claimLog[k].bf)
              /\ ~ClaimedBeforeLTO(claimLog[k].rec, claimLog[k].bf)
              /\ ~claimLog[k].again

\* C16 witness: with profile-ignore-hash, S4 has bound the only record of
\* the common name k to the only function of that name although the block
\* counts differ, and has left the only record of the common name g, whose
\* binary bucket holds two functions, unbound.
C16_Witness ==
  /\ pc = "residual"
  /\ opts.IgnoreHash
  /\ \E i, j \in Records :
       /\ Functions[i].Name = NameK
       /\ SingletonPair(i, "F1")
       /\ ~profileMatches(i, "F1")
       /\ ClaimedInStage(i, "F1", "lto")
       /\ Functions[j].Name = NameG1
       /\ LTOCommonNameMap[CommonNameOf(j)[1]] = <<j>>
       /\ ~Used[j]

(***************************************************************************)
(* Properties of the verdict of parseFunctionProfile, checked under Spec   *)
(* on the history of invocations.                                          *)
(***************************************************************************)
\* Condition (a) of invocation k: no mismatch counted, and block count and
\* hash of the record are those of the function.
CleanMatch(k) ==
  /\ parseLog[k].MismatchedBlocks = 0
  /\ parseLog[k].MismatchedCalls = 0
  /\ parseLog[k].MismatchedEdges = 0
  /\ Functions[parseLog[k].rec].NumBasicBlocks = BFSize(parseLog[k].bf)
  /\ \/ opts.IgnoreHash
     \/ Functions[parseLog[k].rec].Hash = BinaryFunctions[parseLog[k].bf].Hash

\* C18: for a non-empty function parseFunctionProfile returns true exactly
\* when condition (a) holds, or it fails, infer-stale-profile is enabled
\* and inferStaleProfile returns true; inferStaleProfile is invoked exactly
\* when condition (a) fails and the option is enabled.
C18_Verdict ==
  \A k \in 1..Len(parseLog) :
    ~BFEmpty(parseLog[k].bf) =>
      /\ parseLog[k].InferCalled <=> (~CleanMatch(k) /\ opts.InferStaleProfile)
      /\ parseLog[k].ret <=>
           \/ CleanMatch(k)
           \/ /\ ~CleanMatch(k) /\ opts.InferStaleProfile
              /\ parseLog[k].InferReturned

\* C18 witness: readProfile returned after an invocation with condition (a)
\* and no inference, and an invocation without it that inference turned
\* into a match.
C18_Witness ==
  /\ pc = "done"
  /\ \E j, k \in 1..Len(parseLog) :
       /\ ~BFEmpty(parseLog[j].bf) /\ ~BFEmpty(parseLog[k].bf)
       /\ CleanMatch(j) /\ parseLog[j].ret /\ ~parseLog[j].InferCalled
       /\ ~CleanMatch(k) /\ parseLog[k].InferCalled /\ parseLog[k].ret

(***************************************************************************)
(* markProfiled, checked under Spec on every invocation.                   *)
(***************************************************************************)
\* The invocation has left the function as markProfiled leaves it, or has
\* left what markProfiled writes as it was.
MarkedNow ==
  /\ BF'[InvokedOn].Profiled
  /\ BF'[InvokedOn].ProfileFlags = Header.Flags
NotMarkedNow ==
  /\ BF'[InvokedOn].Profiled = BF[InvokedOn].Profiled
  /\ BF'[InvokedOn].ProfileFlags = BF[InvokedOn].ProfileFlags

\* C19 (as amended): on a non-empty function parseFunctionProfile calls
\* markProfiled with the header flags exactly when it returns true; on an
\* empty function it returns true and does not call markProfiled.
C19_MarkProfiled ==
  [][Invoked =>
       /\ BFEmpty(InvokedOn) => (Invocation.ret /\ ~Invocation.Marked)
       /\ ~BFEmpty(InvokedOn) => (Invocation.Marked <=> Invocation.ret)
       /\ IF Invocation.Marked THEN MarkedNow ELSE NotMarkedNow]_vars

\* C19 witness: readProfile returned after an invocation on the empty
\* function, which returned true and left it unmarked, and an invocation on
\* a non-empty function, which returned true and marked it.
C19_Witness ==
  /\ pc = "done"
  /\ \E j, k \in 1..Len(parseLog) :
       /\ parseLog[j].bf = "F4" /\ parseLog[j].ret /\ ~parseLog[j].Marked
       /\ ~BF["F4"].Profiled
       /\ ~BFEmpty(parseLog[k].bf) /\ parseLog[k].ret /\ parseLog[k].Marked
       /\ BF[parseLog[k].bf].Profiled

\* C19 as claimed: markProfiled is called exactly when parseFunctionProfile
\* returns true, on an empty function too.
C19_Original ==
  [][Invoked =>
       /\ Invocation.Marked <=> Invocation.ret
       /\ Invocation.ret => MarkedNow]_vars

(***************************************************************************)
(* Properties of the name-similarity stage, checked under SpecLTO.         *)
(***************************************************************************)
AfterSimilarityStage == pc \in {"propagate", "done"}

\* Record i was claimed in a stage before S6.
ClaimedBeforeSimilarity(i) ==
  \E k \in 1..Len(claimLog) :
    claimLog[k].rec = i /\ claimLog[k].stage # "similarity"

\* The function bf was claimed in a stage before S6, or in S6 by a record
\* before record i.
ClaimedBeforeSimilarityTurn(bf, i) ==
  \E k \in 1..Len(claimLog) :
    /\ claimLog[k].bf = bf
    /\ claimLog[k].stage = "similarity" => claimLog[k].rec < i

\* The candidates of record i: the functions of its namespace and block
\* count that are unclaimed at its turn.
CandidatesOf(i) ==
  {bf \in BinaryFunctionIds :
     /\ BFNameSpace(bf) = DeriveNameSpace(Functions[i].Name)
     /\ BFSize(bf) = Functions[i].NumBasicBlocks
     /\ ~ClaimedBeforeSimilarityTurn(bf, i)}

PositionOf(bf) ==
  CHOOSE k \in 1..Len(AllBinaryFunctions) : AllBinaryFunctions[k] = bf

\* bf is the candidate of record i of least edit distance, the first in
\* the order of BC.getAllBinaryFunctions() among those of least distance.
ClosestCandidate(i, bf) ==
  /\ bf \in CandidatesOf(i)
  /\ \A c \in CandidatesOf(i) :
       \/ EditDistanceTo(i, bf) < EditDistanceTo(i, c)
       \/ /\ EditDistanceTo(i, bf) = EditDistanceTo(i, c)
          /\ PositionOf(bf) <= PositionOf(c)

\* C21: with a threshold above 0, S6 binds a record to a function exactly
\* when the record was not claimed in an earlier stage, the function is the
\* closest of the record's candidates (same namespace, equal block count,
\* unclaimed at the record's turn, the claims of earlier records in S6
\* counted; the first in iteration order on ties) and its edit distance is
\* at most the threshold; with threshold 0 S6 binds nothing.
C21_SimilaritySelection ==
  AfterSimilarityStage =>
    \A i \in Records : \A bf \in BinaryFunctionIds :
      ClaimedInStage(i, bf, "similarity") <=>
        /\ opts.NameSimilarityFunctionMatchingThreshold > 0
        /\ ~ClaimedBeforeSimilarity(i)
        /\ ClosestCandidate(i, bf)
        /\ EditDistanceTo(i, bf) <= opts.NameSimilarityFunctionMatchingThreshold

\* C21 witness: S6 has bound a record to the first of two candidates at the
\* same distance, and the next record to the second, the first being
\* claimed by then.
C21_Witness ==
  /\ pc = "propagate"
  /\ \E i, j \in Records :
       /\ i < j
       /\ ClaimedInStage(i, "F2", "similarity")
       /\ "F3" \in CandidatesOf(i)
       /\ EditDistanceTo(i, "F2") = EditDistanceTo(i, "F3")
       /\ ClaimedInStage(j, "F3", "similarity")
       /\ EditDistanceTo(j, "F2") = EditDistanceTo(j, "F3")

(***************************************************************************)
(* The order of matching and propagation, checked under Spec.              *)
(***************************************************************************)
\* parseFunctionProfile has been invoked on record i.
Parsed(i) == \E k \in 1..Len(parseLog) : parseLog[k].rec = i

\* C22: once parseFunctionProfile has been invoked, readProfile makes no
\* claim: the history of claims, YamlProfileToFunction, the Used flags and
\* ProfiledFunctions stay as they are; every invocation is on a used record
\* that was not parsed before and on the function the record is bound to;
\* and when readProfile returns every used record has been parsed.
C22_MatchThenPropagate ==
  [][/\ Len(parseLog) > 0 =>
          /\ claimLog' = claimLog
          /\ YamlProfileToFunction' = YamlProfileToFunction
          /\ Used' = Used
          /\ ProfiledFunctions' = ProfiledFunctions
     /\ Invoked =>
          /\ claimLog' = claimLog
          /\ Used[Invocation.rec]
          /\ ~Parsed(Invocation.rec)
          /\ InvokedOn = TargetOfRecord(Invocation.rec)
     /\ (pc = "propagate" /\ pc' = "done") =>
          \A i \in Records : Used[i] <=> Parsed(i)]_vars

\* C22 witness: readProfile returned after two invocations; the first
\* record was claimed in the last stage, S6, and the call site of the
\* second record has that record's function as its callee.
C22_Witness ==
  /\ pc = "done"
  /\ Len(parseLog) = 2
  /\ Functions[1].Id = 1
  /\ ClaimedInStage(1, "F1", "similarity")
  /\ TargetOfRecord(2) # NullBF
  /\ Len(BF[TargetOfRecord(2)].AllCallSites) > 0
  /\ BF[TargetOfRecord(2)].AllCallSites[1].Symbol = <<"F1", 0>>

(***************************************************************************)
(* One claim per LTO common name, checked under SpecLTO.                   *)
(***************************************************************************)
\* The claims of S4 for records of the common name c.
LTOClaimsOf(c) ==
  {k \in 1..Len(claimLog) :
     claimLog[k].stage = "lto" /\ CommonNameOf(claimLog[k].rec) = <<c>>}

EarlyClaim(k) == claimLog[k].stage \in {"exact", "hash"}

\* Record i, unused when S4 starts, matches a function of the binary bucket
\* of c that is unclaimed when S4 starts.
MatchableIn(i, c) ==
  /\ \A k \in 1..Len(claimLog) : EarlyClaim(k) => claimLog[k].rec # i
  /\ \E bf \in LTOCommonNameFunctionMap[c] :
       /\ \A k \in 1..Len(claimLog) : EarlyClaim(k) => claimLog[k].bf # bf
       /\ profileMatches(i, bf)

\* C23: S4 makes at most one claim per LTO common name, and
\* MatchedWithLTOCommonName is the number of its claims; right after S4,
\* the record of a bucket that is bound to a function it matches is the
\* first record of the bucket, in source order, that matches an unclaimed
\* function of the bucket, and the records after it are left unbound.
C23_OnePerCommonName ==
  /\ AfterLTOStage =>
       /\ \A c \in DOMAIN LTOCommonNameMap : Cardinality(LTOClaimsOf(c)) <= 1
       /\ Stats.MatchedWithLTOCommonName =
            Cardinality({k \in 1..Len(claimLog) : claimLog[k].stage = "lto"})
  /\ pc = "residual" =>
       \A c \in DOMAIN LTOCommonNameMap \cap DOMAIN LTOCommonNameFunctionMap :
         \A p \in 1..Len(LTOCommonNameMap[c]) :
           (\E bf \in BinaryFunctionIds :
              /\ ClaimedInStage(LTOCommonNameMap[c][p], bf, "lto")
              /\ profileMatches(LTOCommonNameMap[c][p], bf))
           <=> /\ MatchableIn(LTOCommonNameMap[c][p], c)
               /\ \A q \in 1..(p - 1) : ~MatchableIn(LTOCommonNameMap[c][q], c)

\* C23 witness: two records of the common name g, S4 has bound the first
\* and left the second unbound although a function of the bucket that the
\* second record matches is unclaimed.
C23_Witness ==
  /\ pc = "residual"
  /\ Stats.MatchedWithLTOCommonName = 1
  /\ \E i, j \in Records :
       /\ i < j
       /\ Functions[i].Name = NameG1 /\ Functions[j].Name = NameG1
       /\ \E bf \in BinaryFunctionIds : ClaimedInStage(i, bf, "lto")
       /\ ~Used[j]
       /\ \E bf \in LTOCommonNameFunctionMap[CommonNameOf(j)[1]] :
            bf \notin ProfiledFunctions /\ profileMatches(j, bf)

====
